---- MODULE Spec2Model ----
(***************************************************************************)
(* A model of the sync engine and the file watcher of yryr-asset-sync:     *)
(*   src/src/utils/file_utils.py    pattern matching, scan, stale check,   *)
(*                                  backup and copy                        *)
(*   src/src/core/sync_engine.py    SyncEngine                             *)
(*   src/src/core/file_watcher.py   SyncEventHandler, FileWatcher          *)
(*                                                                         *)
(* Strings the code takes apart (file names, patterns) are sequences of    *)
(* one-character strings; a path is a sequence of components, the last     *)
(* one being the base name (Path.name).                                    *)
(***************************************************************************)
EXTENDS Integers, Sequences, FiniteSets, TLC

VARIABLES
    call,         \* the pure function under call and its arguments
    ret,          \* its return value, [st |-> "none"] before the call returns
    fs,           \* the filesystem: source tree, target tree, backups
    fs0,          \* the filesystem as it was when the current run began
    options,      \* SyncOptions of the run
    folder_pair,  \* the FolderPair under sync
    eng,          \* SyncEngine: _cancelled, the position in sync_folder_pair,
                  \* its locals (sync_files, loop index, result)
    tasks,        \* the per-file syncs of the run, in submission order
    cb,           \* the calls made on the SyncProgressCallback, in order
    hist,         \* the SyncResults returned so far, in order
    preview,      \* what get_sync_preview returned, [st |-> "none"] before
    budget,       \* what the environment may still do (runs, cancels, ...)
    fw,           \* FileWatcher: its SyncEventHandlers and its event queue
    clock,        \* datetime.now(), in seconds
    wlog,         \* the filesystem events dispatched and what became of them
    batch         \* sync_multiple_folder_pairs: its position, its folder pairs
                  \* with the filesystem of each, its counters and result

pureVars == <<call, ret>>
syncVars == <<fs, fs0, options, folder_pair, eng, tasks, cb, hist, preview, budget,
              batch>>
watchVars == <<fw, clock, wlog>>
otherVars == <<call, ret, fw, clock, wlog, batch>>
vars == <<call, ret, fs, fs0, options, folder_pair, eng, tasks, cb, hist, preview,
          budget, fw, clock, wlog, batch>>

(***************************************************************************)
(* Strings                                                                 *)
(***************************************************************************)
Last(s) == s[Len(s)]

Front(s) == SubSeq(s, 1, Len(s) - 1)

\* str.lower() on the letters the model uses (re.IGNORECASE folds case)
Lower(c) ==
    CASE c = "A" -> "a"
      [] c = "P" -> "p"
      [] c = "N" -> "n"
      [] c = "G" -> "g"
      [] OTHER -> c

a_png == <<"a", ".", "p", "n", "g">>
A_PNG == <<"A", ".", "P", "N", "G">>
b_tmp == <<"b", ".", "t", "m", "p">>
b_png == <<"b", ".", "p", "n", "g">>

RegexTag == <<"r", "e", "g", "e", "x", ":">>

\* glob patterns
g_png == <<"*", ".", "p", "n", "g">>      \* *.png
g_tmp == <<"*", ".", "t", "m", "p">>      \* *.tmp
g_a   == <<"a", "*">>                     \* a*
\* tagged regular expressions
r_png == RegexTag \o <<"p", "n", "g">>    \* regex:png
r_dot == RegexTag \o <<"b", ".">>         \* regex:b.
r_bad == RegexTag \o <<"[">>              \* regex:[    (does not compile)

\* pattern.startswith(prefix)
StartsWith(s, prefix) ==
    /\ Len(s) >= Len(prefix)
    /\ SubSeq(s, 1, Len(prefix)) = prefix

(***************************************************************************)
(* fnmatch.fnmatch(name, pat) for patterns of literals, "?" and "*"        *)
(* (posix: os.path.normcase is the identity, the match is case-sensitive). *)
(***************************************************************************)
RECURSIVE fnmatch(_, _)
fnmatch(name, pat) ==
    IF pat = <<>> THEN name = <<>>
    ELSE IF Head(pat) = "*"
         THEN \/ fnmatch(name, Tail(pat))
              \/ (name # <<>> /\ fnmatch(Tail(name), pat))
    ELSE IF name = <<>> THEN FALSE
    ELSE /\ (Head(pat) = "?" \/ Head(pat) = Head(name))
         /\ fnmatch(Tail(name), Tail(pat))

(***************************************************************************)
(* re.search(regex, name, re.IGNORECASE) for regular expressions made of   *)
(* literals and "." ; an expression holding a "[" that no "]" closes does  *)
(* not compile and re.search raises re.error.                              *)
(***************************************************************************)
re_compiles(rx) ==
    \A i \in 1..Len(rx) :
        rx[i] = "[" => \E j \in (i + 1)..Len(rx) : rx[j] = "]"

re_match_at(rx, name, off) ==
    /\ off + Len(rx) <= Len(name)
    /\ \A i \in 1..Len(rx) :
          \/ rx[i] = "."
          \/ Lower(rx[i]) = Lower(name[off + i])

\* "raise" | "match" | "nomatch"
re_search(rx, name) ==
    IF ~re_compiles(rx) THEN "raise"
    ELSE IF \E off \in 0..Len(name) : re_match_at(rx, name, off) THEN "match"
    ELSE "nomatch"

\* the test made on one pattern of either list, file_utils.py:162-170 / 178-186
PatternHit(pattern, file_name) ==
    IF StartsWith(pattern, RegexTag)
    THEN re_search(SubSeq(pattern, 7, Len(pattern)), file_name)
    ELSE IF fnmatch(file_name, pattern) THEN "match" ELSE "nomatch"

\* the result of walking one pattern list: the first pattern that matches or
\* raises ends the loop
RECURSIVE FirstHit(_, _)
FirstHit(patterns, file_name) ==
    IF patterns = <<>> THEN "nomatch"
    ELSE LET h == PatternHit(Head(patterns), file_name)
         IN  IF h = "nomatch" THEN FirstHit(Tail(patterns), file_name) ELSE h

\* match_patterns: "true" | "false" | "raise" (re.error leaves the function)
match_patterns(file_path, include_patterns, exclude_patterns) ==
    LET file_name == Last(file_path)
        ex == FirstHit(exclude_patterns, file_name)
        inc == FirstHit(include_patterns, file_name)
    IN  IF ex = "raise" THEN "raise"
        ELSE IF ex = "match" THEN "false"
        ELSE IF include_patterns = <<>> THEN "true"
        ELSE IF inc = "raise" THEN "raise"
        ELSE IF inc = "match" THEN "true"
        ELSE "false"

(***************************************************************************)
(* scan_directory: `walk` is what directory.rglob("*") produces, in walk   *)
(* order, each entry a path under the directory and what is_file() says    *)
(* of it, or stat_denied when is_file() raises PermissionError.            *)
(* list(scan_directory(...)) is the sequence of the files yielded, unless  *)
(* match_patterns raises: only PermissionError is caught, so the re.error  *)
(* leaves the generator and the list is never built.  The try that catches *)
(* PermissionError stands around the whole loop (file_utils.py:217-229):   *)
(* the generator ends at the first entry whose is_file() raises it.        *)
(***************************************************************************)
RECURSIVE scan_directory(_, _, _)
scan_directory(walk, include_patterns, exclude_patterns) ==
    IF walk = <<>> THEN [raised |-> FALSE, files |-> <<>>]
    ELSE IF Head(walk).stat_denied THEN [raised |-> FALSE, files |-> <<>>]
    ELSE LET e == Head(walk)
             m == IF e.is_file
                  THEN match_patterns(e.path, include_patterns, exclude_patterns)
                  ELSE "false"
             rest == scan_directory(Tail(walk), include_patterns, exclude_patterns)
         IN  IF m = "raise" \/ rest.raised THEN [raised |-> TRUE, files |-> <<>>]
             ELSE IF m = "true"
                  THEN [raised |-> FALSE, files |-> <<e.path>> \o rest.files]
             ELSE rest

(***************************************************************************)
(* FolderPair rules.  A FileRenameRule is read by the engine through its   *)
(* fields enabled, source_filename and target_filename                     *)
(* (sync_engine.py:299-306); a FileMappingRule is models.py:19-26.         *)
(***************************************************************************)
x_png == <<"x", ".", "p", "n", "g">>
ui    == <<"u", "i">>
btn   == <<"b", "t", "n">>
sub   == <<"s", "u", "b">>

source_base == << <<"s", "r", "c">> >>
target_base == << <<"t", "g", "t">> >>

RenameRule(s, t, e) == [source_filename |-> s, target_filename |-> t, enabled |-> e]

MappingRule(p, t, e) == [pattern |-> p, target_subpath |-> t, enabled |-> e]

\* the mutation of _apply_rename_rules that forgets `if not rule.enabled: continue`
RECURSIVE apply_rename_rules_any(_, _, _)
apply_rename_rules_any(source_file, target_file, rename_rules) ==
    IF rename_rules = <<>> THEN target_file
    ELSE LET rule == Head(rename_rules)
         IN  IF Last(source_file) = rule.source_filename
             THEN Front(target_file) \o <<rule.target_filename>>
             ELSE apply_rename_rules_any(source_file, target_file, Tail(rename_rules))

\* SyncEngine._apply_rename_rules
RECURSIVE apply_rename_rules(_, _, _)
apply_rename_rules(source_file, target_file, rename_rules) ==
    IF rename_rules = <<>> THEN target_file
    ELSE LET rule == Head(rename_rules)
         IN  IF rule.enabled /\ Last(source_file) = rule.source_filename
             THEN Front(target_file) \o <<rule.target_filename>>
             ELSE apply_rename_rules(source_file, target_file, Tail(rename_rules))

\* source_file.relative_to(source_base)
relative_to(source_file, base) == SubSeq(source_file, Len(base) + 1, Len(source_file))

\* the destination the engine gives a scanned file, sync_engine.py:189-196 and
\* 239-246: the source-relative path under the target root, then the rename
\* rules; folder_pair.file_mapping_rules is not read
TargetFile(source_file, pair) ==
    LET rel_path == relative_to(source_file, source_base)
        target_file == target_base \o rel_path
    IN  IF pair.file_rename_rules # <<>>
        THEN apply_rename_rules(source_file, target_file, pair.file_rename_rules)
        ELSE target_file

(***************************************************************************)
(* The pure functions under call: Init draws the arguments, the call       *)
(* stores what the function returns.                                       *)
(***************************************************************************)
MaxPatterns == 2
MaxRules == 2

SeqsUpTo(S, n) == UNION {[1..k -> S] : k \in 0..n}

PatternPool == {g_png, g_tmp, g_a, r_png, r_bad}
PatternLists == SeqsUpTo(PatternPool, MaxPatterns)

PathPool == {<<a_png>>, <<ui, a_png>>, <<b_tmp>>, <<A_PNG>>}

WalkPool ==
    { << [path |-> <<a_png>>, is_file |-> TRUE, stat_denied |-> FALSE],
         [path |-> <<b_tmp>>, is_file |-> TRUE, stat_denied |-> FALSE],
         [path |-> <<ui>>, is_file |-> FALSE, stat_denied |-> FALSE],
         [path |-> <<ui, a_png>>, is_file |-> TRUE, stat_denied |-> FALSE] >>,
      << [path |-> <<b_tmp>>, is_file |-> TRUE, stat_denied |-> FALSE],
         [path |-> <<A_PNG>>, is_file |-> TRUE, stat_denied |-> FALSE] >> }

RenamePool ==
    {RenameRule(s, t, e) :
        s \in {a_png, b_png}, t \in {x_png, b_png}, e \in BOOLEAN}
        \ {RenameRule(b_png, b_png, e) : e \in BOOLEAN}
MappingPool ==
    {MappingRule(g_a, <<ui, btn>>, e) : e \in BOOLEAN}
        \cup {MappingRule(g_png, <<ui>>, e) : e \in BOOLEAN}

SourcePool == {source_base \o <<a_png>>, source_base \o <<b_png>>,
               source_base \o <<sub, a_png>>}

NotReturned == [st |-> "none"]

\* the engine is not constructed in the specifications of the pure functions
NoEngine ==
    /\ fs = <<>> /\ fs0 = <<>> /\ options = <<>> /\ folder_pair = <<>>
    /\ eng = <<>> /\ tasks = <<>> /\ cb = <<>> /\ hist = <<>>
    /\ preview = NotReturned /\ budget = <<>> /\ batch = <<>>

NoCall == call = <<>> /\ ret = NotReturned

\* no FileWatcher is constructed in the specifications of the sync engine
NoWatcher == fw = <<>> /\ clock = 0 /\ wlog = <<>>

Returned(v) == [st |-> "returned", val |-> v]

InitMatch ==
    /\ NoEngine /\ NoWatcher
    /\ ret = NotReturned
    /\ \/ \E f \in PathPool, inc \in PatternLists, exc \in PatternLists :
            call = [op |-> "match_patterns", file_path |-> f,
                    include_patterns |-> inc, exclude_patterns |-> exc]
       \/ \E w \in WalkPool, inc \in PatternLists, exc \in PatternLists :
            call = [op |-> "scan_directory", walk |-> w,
                    include_patterns |-> inc, exclude_patterns |-> exc]

CallMatchPatterns ==
    /\ call.op = "match_patterns" /\ ret = NotReturned
    /\ ret' = Returned(match_patterns(call.file_path, call.include_patterns,
                                      call.exclude_patterns))
    /\ UNCHANGED <<call, syncVars, watchVars>>

CallScanDirectory ==
    /\ call.op = "scan_directory" /\ ret = NotReturned
    /\ ret' = Returned(scan_directory(call.walk, call.include_patterns,
                                      call.exclude_patterns))
    /\ UNCHANGED <<call, syncVars, watchVars>>

NextMatch == CallMatchPatterns \/ CallScanDirectory

SpecMatch == InitMatch /\ [][NextMatch]_vars

InitPath ==
    /\ NoEngine /\ NoWatcher
    /\ ret = NotReturned
    /\ \/ \E s \in SourcePool, rr \in SeqsUpTo(RenamePool, MaxRules) :
          \E t \in {target_base \o relative_to(s, source_base),
                    target_base \o <<ui, Last(s)>>} :
            call = [op |-> "_apply_rename_rules", source_file |-> s,
                    target_file |-> t, rename_rules |-> rr]
       \/ \E s \in SourcePool, rr \in SeqsUpTo(RenamePool, MaxRules),
             mr \in SeqsUpTo(MappingPool, MaxRules) :
            call = [op |-> "target_file", source_file |-> s,
                    folder_pair |-> [file_rename_rules |-> rr,
                                     file_mapping_rules |-> mr]]

CallApplyRenameRules ==
    /\ call.op = "_apply_rename_rules" /\ ret = NotReturned
    /\ ret' = Returned(apply_rename_rules(call.source_file, call.target_file,
                                          call.rename_rules))
    /\ UNCHANGED <<call, syncVars, watchVars>>

CallTargetFile ==
    /\ call.op = "target_file" /\ ret = NotReturned
    /\ ret' = Returned(TargetFile(call.source_file, call.folder_pair))
    /\ UNCHANGED <<call, syncVars, watchVars>>

NextPath == CallApplyRenameRules \/ CallTargetFile

SpecPath == InitPath /\ [][NextPath]_vars

(***************************************************************************)
(* Claims on the pure functions                                            *)
(***************************************************************************)
\* what "pattern p matches the name" means for a claim: the glob matches, or
\* the tagged regular expression is found
Matches(p, file_name) == PatternHit(p, file_name) = "match"

AnyMatches(patterns, file_name) ==
    \E i \in 1..Len(patterns) : Matches(patterns[i], file_name)

MatchReturned == call.op = "match_patterns" /\ ret.st = "returned"

ScanReturned == call.op = "scan_directory" /\ ret.st = "returned"

\* C5: match_patterns returns false whenever an exclude pattern matches the
\* base name, whatever the include list holds; otherwise it returns true iff
\* the include list is empty or an include pattern matches; and the answer is
\* that of the base name alone, whatever directory the file is in.
C5_ExcludeWins ==
    MatchReturned =>
        LET n == Last(call.file_path)
            inc == call.include_patterns
            exc == call.exclude_patterns
        IN  /\ AnyMatches(exc, n) => ret.val = "false"
            /\ ~AnyMatches(exc, n) =>
                  /\ ret.val \in {"true", "false"}
                  /\ (ret.val = "true") <=> (inc = <<>> \/ AnyMatches(inc, n))
            /\ ret.val = match_patterns(<<n>>, inc, exc)

\* C6: a malformed "regex:" pattern is a non-match and the other patterns are
\* still evaluated: match_patterns never raises and answers as it does with
\* the malformed patterns absent, and a scan yields the files the other
\* patterns select instead of aborting.
WellFormed(p) ==
    StartsWith(p, RegexTag) => re_compiles(SubSeq(p, 7, Len(p)))

KeepWellFormed(patterns) == SelectSeq(patterns, WellFormed)

C6_MalformedRegexIsNonMatch ==
    /\ MatchReturned =>
          /\ ret.val # "raise"
          /\ ret.val = match_patterns(call.file_path,
                                      KeepWellFormed(call.include_patterns),
                                      KeepWellFormed(call.exclude_patterns))
    /\ ScanReturned =>
          /\ ~ret.val.raised
          /\ ret.val = scan_directory(call.walk,
                                      KeepWellFormed(call.include_patterns),
                                      KeepWellFormed(call.exclude_patterns))

Min(S) == CHOOSE x \in S : \A y \in S : x <= y

RenameReturned == call.op = "_apply_rename_rules" /\ ret.st = "returned"

TargetReturned == call.op = "target_file" /\ ret.st = "returned"

\* the enabled rename rules whose source_filename is the file's base name
RenameHits(rules, source_file) ==
    {i \in 1..Len(rules) :
        rules[i].enabled /\ rules[i].source_filename = Last(source_file)}

\* the enabled mapping rules whose pattern matches the file's base name
MappingHits(rules, source_file) ==
    {i \in 1..Len(rules) :
        rules[i].enabled /\ Matches(rules[i].pattern, Last(source_file))}

\* C7: with a non-empty file_mapping_rules list a file whose base name matches
\* an enabled mapping rule goes to target_root/<target_subpath of the first
\* such rule>/<file name>; a file matching no enabled rule keeps its
\* source-relative path.  (Stated for the directory of the destination; the
\* name is the file's own when no rename rule is configured.)
C7_MappingRules ==
    (TargetReturned /\ call.folder_pair.file_mapping_rules # <<>>) =>
        LET mr == call.folder_pair.file_mapping_rules
            hits == MappingHits(mr, call.source_file)
            rel == relative_to(call.source_file, source_base)
        IN  /\ hits # {} =>
                  Front(ret.val) = target_base \o mr[Min(hits)].target_subpath
            /\ hits = {} => Front(ret.val) = Front(target_base \o rel)
            /\ call.folder_pair.file_rename_rules = <<>> =>
                  Last(ret.val) = Last(call.source_file)

\* C8: if an enabled rename rule's source_filename equals the file's exact
\* base name, the destination is the parent directory of the destination
\* already computed joined with the target_filename of the first such rule;
\* disabled rules are never applied; with no enabled match the destination is
\* returned unchanged.
C8_RenameRules ==
    RenameReturned =>
        LET rules == call.rename_rules
            hits == RenameHits(rules, call.source_file)
        IN  /\ hits # {} =>
                  /\ ret.val = Front(call.target_file)
                                  \o <<rules[Min(hits)].target_filename>>
                  /\ Len(ret.val) = Len(call.target_file)
            /\ hits = {} => ret.val = call.target_file

\* C8 witness: a disabled rule naming the file comes first and is passed
\* over, the enabled rule after it renames the file
C8_Witness ==
    /\ RenameReturned
    /\ Len(call.rename_rules) = 2
    /\ ~call.rename_rules[1].enabled
    /\ call.rename_rules[1].source_filename = Last(call.source_file)
    /\ call.rename_rules[1].target_filename # call.rename_rules[2].target_filename
    /\ RenameHits(call.rename_rules, call.source_file) = {2}
    /\ Len(call.target_file) = 3
    /\ ret.val # call.target_file

(***************************************************************************)
(* The filesystem.                                                         *)
(*   fs.walk     what source_path.rglob("*") lists, in walk order          *)
(*   fs.src      source-relative path -> [mtime] of the source files that  *)
(*               exist                                                     *)
(*   fs.tgt      destination path -> [mtime, content] of the files that    *)
(*               exist under the target root; content names the source     *)
(*               file it was copied from, or old_content                   *)
(*   fs.dirs     the directories that exist at or under the target root    *)
(*   fs.backups  the backup copies made, each [of, content]                *)
(*   fs.nowrite  destination paths the process may not write               *)
(*   fs.nobackup TRUE when backup directories cannot be written            *)
(***************************************************************************)
Exists(tree, path) == path \in DOMAIN tree

\* target_path.parent and its parents
Parents(path) == {SubSeq(path, 1, k) : k \in 1..(Len(path) - 1)}

backup_dirname == <<"b", "a", "c", "k", "u", "p">>

\* the mutation of is_file_newer that compares with >=
is_file_newer_ge(f, rel, dst) ==
    IF ~Exists(f.src, rel) THEN FALSE
    ELSE IF ~Exists(f.tgt, dst) THEN TRUE
    ELSE f.src[rel].mtime >= f.tgt[dst].mtime

\* is_file_newer(source_path, target_path)
is_file_newer(f, rel, dst) ==
    IF ~Exists(f.src, rel) THEN FALSE
    ELSE IF ~Exists(f.tgt, dst) THEN TRUE
    ELSE f.src[rel].mtime > f.tgt[dst].mtime

\* copy_file_with_metadata: [ok, fs].  mkdir(parents=True) comes first and
\* stays when the copy fails; shutil.copy2 copies content and modification
\* time and raises when the source is gone or the destination cannot be
\* written, or when source and destination are one file (SameFileError);
\* with preserve_timestamp os.utime sets the same modification time again.
SameFile(f, rel, dst) == f.same_path /\ dst = target_base \o rel

copy_file_with_metadata(f, rel, dst, preserve_timestamp) ==
    LET f1 == [f EXCEPT !.dirs = @ \cup Parents(dst)]
    IN  IF ~Exists(f.src, rel) \/ dst \in f.nowrite \/ SameFile(f, rel, dst)
        THEN [ok |-> FALSE, fs |-> f1]
        ELSE LET copied == [mtime |-> f.src[rel].mtime, content |-> rel]
                 stamped == IF preserve_timestamp
                            THEN [copied EXCEPT !.mtime = f.src[rel].mtime]
                            ELSE copied
             IN  [ok |-> TRUE,
                  fs |-> [f1 EXCEPT !.tgt = (dst :> stamped) @@ @]]

\* a backup_file that copies nothing
backup_file_skipped(f, dst) == [ok |-> FALSE, fs |-> f]

\* backup_file(file_path): [ok, fs]; None (ok = FALSE) when the file does not
\* exist or the copy into file_path.parent / "backup" raises
backup_file(f, dst) ==
    IF ~Exists(f.tgt, dst) \/ f.nobackup
    THEN [ok |-> FALSE, fs |-> f]
    ELSE [ok |-> TRUE,
          fs |-> [f EXCEPT
                    !.dirs = @ \cup {Front(dst) \o <<backup_dirname>>},
                    !.backups = @ \cup {[of |-> dst, content |-> f.tgt[dst].content]}]]

(***************************************************************************)
(* SyncEngine._sync_single_file, run by the engine's own thread            *)
(* (sequential mode) or by a pool worker: three steps on tasks[k], the     *)
(* stale check, the backup and the copy.  A task is                        *)
(*   [rel, dst, st, outcome, seen, late, backup, replaced]                 *)
(* with st in queued -> check -> backup -> copy -> done, seen what the     *)
(* stale check read ([st |-> "none"] before it), and late recording that   *)
(* _cancelled was already set when _sync_single_file was entered.  backup  *)
(* records the call of backup_file ("none" when it was not called, else    *)
(* "made" or "failed") and replaced what the copy overwrote: the content   *)
(* the destination held and whether the backup directory held a copy of    *)
(* it at that moment.                                                      *)
(***************************************************************************)
NotReplaced == [st |-> "none"]

Replaced(f, dst) ==
    [st |-> "replaced", content |-> f.tgt[dst].content,
     saved |-> [of |-> dst, content |-> f.tgt[dst].content] \in f.backups]

NewTask(rel, dst, st) ==
    [rel |-> rel, dst |-> dst, st |-> st, outcome |-> "none",
     seen |-> [st |-> "none"], late |-> FALSE, backup |-> "none",
     replaced |-> NotReplaced]

Done(t, outcome) == [t EXCEPT !.st = "done", !.outcome = outcome]

\* what the stale check sees of source and destination
Seen(f, t) ==
    [st |-> "seen",
     src_exists |-> Exists(f.src, t.rel),
     tgt_exists |-> Exists(f.tgt, t.dst),
     src_mtime |-> IF Exists(f.src, t.rel) THEN f.src[t.rel].mtime ELSE 0,
     tgt_mtime |-> IF Exists(f.tgt, t.dst) THEN f.tgt[t.dst].mtime ELSE 0]

\* sync_engine.py:320-330: dry run, then the stale check
StepCheck(k) ==
    /\ k \in 1..Len(tasks)
    /\ tasks[k].st = "check"
    /\ LET t == [tasks[k] EXCEPT !.seen = Seen(fs, tasks[k])]
       IN  tasks' = [tasks EXCEPT ![k] =
              IF options.dry_run THEN Done(t, "copied")
              ELSE IF /\ ~options.force_copy
                      /\ Exists(fs.tgt, t.dst)
                      /\ ~is_file_newer(fs, t.rel, t.dst)
                   THEN Done(t, "skipped")
              ELSE [t EXCEPT !.st = "backup"]]
    /\ UNCHANGED <<otherVars, fs, fs0, options, folder_pair, eng, cb, hist,
                   preview, budget>>

\* sync_engine.py:332-336: the backup; its failure is not an error
StepBackup(k) ==
    /\ k \in 1..Len(tasks)
    /\ tasks[k].st = "backup"
    /\ IF options.create_backup /\ Exists(fs.tgt, tasks[k].dst)
       THEN LET b == backup_file(fs, tasks[k].dst)
            IN  /\ fs' = b.fs
                /\ tasks' = [tasks EXCEPT
                                ![k].st = "copy",
                                ![k].backup = IF b.ok THEN "made" ELSE "failed"]
       ELSE /\ fs' = fs
            /\ tasks' = [tasks EXCEPT ![k].st = "copy"]
    /\ UNCHANGED <<otherVars, fs0, options, folder_pair, eng, cb, hist, preview,
                   budget>>

\* sync_engine.py:338-344: the copy
StepCopy(k) ==
    /\ k \in 1..Len(tasks)
    /\ tasks[k].st = "copy"
    /\ LET c == copy_file_with_metadata(fs, tasks[k].rel, tasks[k].dst,
                                        options.preserve_timestamp)
       IN  /\ fs' = c.fs
           /\ tasks' = [tasks EXCEPT ![k] =
                  Done([@ EXCEPT !.replaced =
                            IF c.ok /\ Exists(fs.tgt, tasks[k].dst)
                            THEN Replaced(fs, tasks[k].dst)
                            ELSE NotReplaced],
                       IF c.ok THEN "copied" ELSE "error")]
    /\ UNCHANGED <<otherVars, fs0, options, folder_pair, eng, cb, hist, preview,
                   budget>>

(***************************************************************************)
(* SyncEngine.  eng is                                                     *)
(*   _cancelled       the cancellation flag                                *)
(*   pc               idle | seq | submit | collect | shutdown | finish |  *)
(*                    done: where sync_folder_pair stands                  *)
(*   files            sync_files, the scanned source-relative paths        *)
(*   i                the loop index of the sequential loop, or of the     *)
(*                    submission loop                                      *)
(*   result           the SyncResult under construction                    *)
(*   completed_count  of _sync_files_parallel                              *)
(*   collected        the futures as_completed has handed out              *)
(***************************************************************************)
SyncResult(success) ==
    [success |-> success, copied_files |-> <<>>, skipped_files |-> <<>>,
     error_files |-> <<>>]

NewEngine ==
    [_cancelled |-> FALSE, pc |-> "idle", files |-> <<>>, i |-> 0,
     result |-> SyncResult(FALSE), completed_count |-> 0, collected |-> {}]

Running == {"scan", "seq", "submit", "collect", "shutdown", "finish"}

OnStart(total) == [ev |-> "on_start", total |-> total]

OnFileProgress(current, total, file_path, status) ==
    [ev |-> "on_file_progress", current |-> current, total |-> total,
     file_path |-> file_path, status |-> status]

OnComplete(result) == [ev |-> "on_complete", result |-> result]

OnError == [ev |-> "on_error"]

\* what rglob lists now: the directories, and the files that still exist
IsListed(f, e) == ~e.is_file \/ Exists(f.src, e.path)

RECURSIVE Walk(_, _)
Walk(f, entries) ==
    IF entries = <<>> THEN <<>>
    ELSE (IF IsListed(f, Head(entries)) THEN <<Head(entries)>> ELSE <<>>)
            \o Walk(f, Tail(entries))

\* _collect_sync_files: a disabled FilterRule scans unfiltered
collect_sync_files(f, filter_rule) ==
    IF ~filter_rule.enabled
    THEN scan_directory(Walk(f, f.walk), <<>>, <<>>)
    ELSE scan_directory(Walk(f, f.walk), filter_rule.include_patterns,
                        filter_rule.exclude_patterns)

\* the validation of the source path left out
source_exists_always(f) == TRUE

\* Path(folder_pair.source_path).exists()
source_exists(f) == f.src_root

\* ensure_directory(directory): [ok, fs]; mkdir(parents=True, exist_ok=True)
\* and False when it raises
ensure_directory(f, directory) ==
    IF directory \in f.nowrite THEN [ok |-> FALSE, fs |-> f]
    ELSE [ok |-> TRUE,
          fs |-> [f EXCEPT !.dirs = @ \cup Parents(directory) \cup {directory}]]

\* sync_folder_pair returns `result`: the engine is done, the caller has it
Return(e, result) == [e EXCEPT !.pc = "done", !.result = result]

\* sync_engine.py:84-115: the flag is reset, the source path is validated
\* and the target directory is made
SyncFolderPairBegin ==
    /\ eng.pc \in {"idle", "done"}
    /\ budget.runs > 0
    /\ budget' = [budget EXCEPT !.runs = @ - 1]
    /\ fs0' = fs
    /\ tasks' = <<>>
    /\ LET e == [NewEngine EXCEPT !._cancelled = FALSE]
           ensured == ensure_directory(fs, target_base)
       IN  IF ~source_exists(fs) \/ ~ensured.ok
           THEN /\ cb' = Append(cb, OnError)
                /\ eng' = Return(e, SyncResult(FALSE))
                /\ hist' = Append(hist, SyncResult(FALSE))
                /\ fs' = fs
           ELSE /\ cb' = cb
                /\ eng' = [e EXCEPT !.pc = "scan"]
                /\ hist' = hist
                /\ fs' = ensured.fs
    /\ UNCHANGED <<otherVars, options, folder_pair, preview>>

\* sync_engine.py:117-139: the source tree is scanned; an exception of the
\* scan goes to on_error, an empty scan to on_complete, whatever the flag;
\* else on_start is invoked and the copy phase is entered
SyncFolderPairScan ==
    /\ eng.pc = "scan"
    /\ LET scan == collect_sync_files(fs, folder_pair.filter_rule)
       IN  IF scan.raised
           THEN /\ cb' = Append(cb, OnError)
                /\ eng' = Return(eng, SyncResult(FALSE))
                /\ hist' = Append(hist, SyncResult(FALSE))
           ELSE IF scan.files = <<>>
           THEN /\ cb' = Append(cb, OnComplete(SyncResult(TRUE)))
                /\ eng' = Return(eng, SyncResult(TRUE))
                /\ hist' = Append(hist, SyncResult(TRUE))
           ELSE /\ cb' = Append(cb, OnStart(Len(scan.files)))
                /\ eng' = [eng EXCEPT
                             !.pc = IF options.max_workers > 1 THEN "submit" ELSE "seq",
                             !.files = scan.files, !.i = 1,
                             !.result = SyncResult(TRUE)]
                /\ hist' = hist
    /\ UNCHANGED <<otherVars, fs, fs0, options, folder_pair, tasks, preview,
                   budget>>

\* a loop over the scanned files stopped by a recorded error
LoopEndsOnError(e) ==
    e.i > Len(e.files) \/ e._cancelled \/ e.result.error_files # <<>>

\* `for source_file in files: if self._cancelled: break`: the loop over the
\* scanned files is left at their end or when the flag is set
LoopEnds(e) == e.i > Len(e.files) \/ e._cancelled

\* sync_engine.py:183-200: the head of the sequential loop; the per-file
\* sync of file i begins here unless the flag is set
SeqNext ==
    /\ eng.pc = "seq"
    /\ Len(tasks) = eng.i - 1
    /\ IF LoopEnds(eng)
       THEN /\ eng' = [eng EXCEPT !.pc = "finish"]
            /\ UNCHANGED <<tasks, cb>>
       ELSE LET rel_path == eng.files[eng.i]
                target_file == TargetFile(source_base \o rel_path, folder_pair)
            IN  /\ cb' = Append(cb, OnFileProgress(eng.i, Len(eng.files),
                                                   rel_path, "processing"))
                /\ tasks' = Append(tasks, NewTask(rel_path, target_file, "check"))
                /\ UNCHANGED eng
    /\ UNCHANGED <<otherVars, fs, fs0, options, folder_pair, hist, preview, budget>>

\* sync_engine.py:202-215: the outcome of file i is recorded; source_file
\* .stat() raises when the source file is gone, and the handler then adds
\* str(source_file), the absolute path, to error_files
SeqRecord ==
    /\ eng.pc = "seq"
    /\ Len(tasks) = eng.i
    /\ tasks[eng.i].st = "done"
    /\ LET t == tasks[eng.i]
           n == Len(eng.files)
           r == eng.result
       IN  \/ /\ t.outcome = "copied"
              /\ Exists(fs.src, t.rel)
              /\ eng' = [eng EXCEPT !.i = @ + 1,
                           !.result.copied_files = Append(@, t.rel)]
              /\ cb' = Append(cb, OnFileProgress(eng.i, n, t.rel, "copied"))
           \/ /\ t.outcome = "copied"
              /\ ~Exists(fs.src, t.rel)
              /\ eng' = [eng EXCEPT !.i = @ + 1,
                           !.result.copied_files = Append(@, t.rel),
                           !.result.error_files = Append(@, source_base \o t.rel)]
              /\ cb' = cb
           \/ /\ t.outcome = "skipped"
              /\ eng' = [eng EXCEPT !.i = @ + 1,
                           !.result.skipped_files = Append(@, t.rel)]
              /\ cb' = Append(cb, OnFileProgress(eng.i, n, t.rel, "skipped"))
           \/ /\ t.outcome = "error"
              /\ eng' = [eng EXCEPT !.i = @ + 1,
                           !.result.error_files = Append(@, t.rel)]
              /\ cb' = Append(cb, OnFileProgress(eng.i, n, t.rel, "error"))
    /\ UNCHANGED <<otherVars, fs, fs0, options, folder_pair, tasks, hist, preview,
                   budget>>

\* sync_engine.py:235-249: the submission loop; executor.submit queues the
\* per-file sync
Submit ==
    /\ eng.pc = "submit"
    /\ IF LoopEnds(eng)
       THEN /\ eng' = [eng EXCEPT !.pc = "collect"]
            /\ UNCHANGED tasks
       ELSE LET rel_path == eng.files[eng.i]
                target_file == TargetFile(source_base \o rel_path, folder_pair)
            IN  /\ tasks' = Append(tasks, NewTask(rel_path, target_file, "queued"))
                /\ eng' = [eng EXCEPT !.i = @ + 1]
    /\ UNCHANGED <<otherVars, fs, fs0, options, folder_pair, cb, hist, preview,
                   budget>>

Active == {k \in 1..Len(tasks) : tasks[k].st \in {"check", "backup", "copy"}}

Queued == {k \in 1..Len(tasks) : tasks[k].st = "queued"}

\* ThreadPoolExecutor: a free worker takes the oldest queued work item and
\* calls _sync_single_file; nothing on this path reads _cancelled
WorkerStart(k) ==
    /\ k \in Queued
    /\ \A j \in Queued : k <= j
    /\ Cardinality(Active) < options.max_workers
    /\ tasks' = [tasks EXCEPT ![k].st = "check", ![k].late = eng._cancelled]
    /\ UNCHANGED <<otherVars, fs, fs0, options, folder_pair, eng, cb, hist,
                   preview, budget>>

\* sync_engine.py:252-276: as_completed hands out a finished future; the
\* loop breaks when the flag is set, else the outcome is recorded; a raising
\* source_file.stat() adds the relative path to error_files as well
Collect(k) ==
    /\ eng.pc = "collect"
    /\ k \in 1..Len(tasks)
    /\ tasks[k].st = "done"
    /\ k \notin eng.collected
    /\ IF eng._cancelled
       THEN /\ eng' = [eng EXCEPT !.pc = "shutdown"]
            /\ cb' = cb
       ELSE LET t == tasks[k]
                n == Len(eng.files)
                c == eng.completed_count + 1
                e == [eng EXCEPT !.collected = @ \cup {k}, !.completed_count = c]
            IN  \/ /\ t.outcome = "copied"
                   /\ Exists(fs.src, t.rel)
                   /\ eng' = [e EXCEPT !.result.copied_files = Append(@, t.rel)]
                   /\ cb' = Append(cb, OnFileProgress(c, n, t.rel, "copied"))
                \/ /\ t.outcome = "copied"
                   /\ ~Exists(fs.src, t.rel)
                   /\ eng' = [e EXCEPT !.result.copied_files = Append(@, t.rel),
                                       !.result.error_files = Append(@, t.rel)]
                   /\ cb' = Append(cb, OnFileProgress(c, n, t.rel, "error"))
                \/ /\ t.outcome = "skipped"
                   /\ eng' = [e EXCEPT !.result.skipped_files = Append(@, t.rel)]
                   /\ cb' = Append(cb, OnFileProgress(c, n, t.rel, "skipped"))
                \/ /\ t.outcome = "error"
                   /\ eng' = [e EXCEPT !.result.error_files = Append(@, t.rel)]
                   /\ cb' = Append(cb, OnFileProgress(c, n, t.rel, "error"))
    /\ UNCHANGED <<otherVars, fs, fs0, options, folder_pair, tasks, hist, preview,
                   budget>>

\* as_completed is exhausted: every submitted future was handed out
CollectEnd ==
    /\ eng.pc = "collect"
    /\ eng.collected = 1..Len(tasks)
    /\ eng' = [eng EXCEPT !.pc = "shutdown"]
    /\ UNCHANGED <<otherVars, fs, fs0, options, folder_pair, tasks, cb, hist,
                   preview, budget>>

\* leaving `with ThreadPoolExecutor(...)`: shutdown(wait=True) returns when
\* every submitted work item has run
Shutdown ==
    /\ eng.pc = "shutdown"
    /\ \A k \in 1..Len(tasks) : tasks[k].st = "done"
    /\ eng' = [eng EXCEPT !.pc = "finish"]
    /\ UNCHANGED <<otherVars, fs, fs0, options, folder_pair, tasks, cb, hist,
                   preview, budget>>

\* sync_engine.py:141-150: on_complete unless the flag is set; the result is
\* returned
SyncFolderPairEnd ==
    /\ eng.pc = "finish"
    /\ cb' = IF eng._cancelled THEN cb ELSE Append(cb, OnComplete(eng.result))
    /\ eng' = Return(eng, eng.result)
    /\ hist' = Append(hist, eng.result)
    /\ UNCHANGED <<otherVars, fs, fs0, options, folder_pair, tasks, preview, budget>>

\* SyncEngine.cancel(), called from another thread while a run is under way
Cancel ==
    /\ eng.pc \in Running
    /\ budget.cancels > 0
    /\ budget' = [budget EXCEPT !.cancels = @ - 1]
    /\ eng' = [eng EXCEPT !._cancelled = TRUE]
    /\ UNCHANGED <<otherVars, fs, fs0, options, folder_pair, tasks, cb, hist,
                   preview>>

\* the environment: another process removes a source file during the run
SourceFileRemoved(rel) ==
    /\ eng.pc \in Running
    /\ budget.removals > 0
    /\ Exists(fs.src, rel)
    /\ budget' = [budget EXCEPT !.removals = @ - 1]
    /\ fs' = [fs EXCEPT !.src = [p \in (DOMAIN fs.src) \ {rel} |-> fs.src[p]]]
    /\ UNCHANGED <<otherVars, fs0, options, folder_pair, eng, tasks, cb, hist,
                   preview>>

(***************************************************************************)
(* SyncEngine.get_sync_preview: the scan and the stale classification of   *)
(* each scanned file against target_path / rel_path (the rename rules are  *)
(* not applied); any exception gives {"error": ...}.                       *)
(***************************************************************************)
RECURSIVE PreviewSelect(_, _, _)
PreviewSelect(f, files, skip) ==
    IF files = <<>> THEN <<>>
    ELSE LET rel == Head(files)
             dst == target_base \o rel
             is_skip == Exists(f.tgt, dst) /\ ~is_file_newer(f, rel, dst)
         IN  (IF is_skip = skip THEN <<rel>> ELSE <<>>)
                \o PreviewSelect(f, Tail(files), skip)

\* the mutation of get_sync_preview that scans without the pair's filter
get_sync_preview_unfiltered(f, pair) ==
    LET scan == scan_directory(Walk(f, f.walk), <<>>, <<>>)
    IN  IF ~f.src_root \/ scan.raised THEN [st |-> "error"]
        ELSE [st |-> "returned",
              files_to_copy |-> PreviewSelect(f, scan.files, FALSE),
              files_to_skip |-> PreviewSelect(f, scan.files, TRUE)]

get_sync_preview(f, pair) ==
    LET scan == collect_sync_files(f, pair.filter_rule)
    IN  IF ~f.src_root \/ scan.raised THEN [st |-> "error"]
        ELSE [st |-> "returned",
              files_to_copy |-> PreviewSelect(f, scan.files, FALSE),
              files_to_skip |-> PreviewSelect(f, scan.files, TRUE)]

\* the caller asks for the preview before it starts the sync
GetSyncPreview ==
    /\ eng.pc = "idle"
    /\ budget.previews > 0
    /\ budget' = [budget EXCEPT !.previews = @ - 1]
    /\ preview' = get_sync_preview(fs, folder_pair)
    /\ UNCHANGED <<otherVars, fs, fs0, options, folder_pair, eng, tasks, cb, hist>>

(***************************************************************************)
(* Configurations                                                          *)
(***************************************************************************)
MaxMtime == 2
MaxWorkers == 2

Mtimes == 1..MaxMtime

File(path) == [path |-> path, is_file |-> TRUE, stat_denied |-> FALSE]

Dir(path) == [path |-> path, is_file |-> FALSE, stat_denied |-> FALSE]

FilterRule(inc, exc, enabled) ==
    [include_patterns |-> inc, exclude_patterns |-> exc, enabled |-> enabled]

\* a FolderPair as it is made: last_sync is None (models.py:40)
FolderPair(filter_rule, rename_rules) ==
    [filter_rule |-> filter_rule, file_rename_rules |-> rename_rules,
     file_mapping_rules |-> <<>>, enabled |-> TRUE, last_sync |-> "None"]

\* ProjectManager.update_sync_timestamp: setattr(folder_pair, "last_sync",
\* timestamp) through update_folder_pair.  Neither sync_engine.py nor
\* MainWindow.on_sync_finished calls it, so no action of the engine applies it.
update_sync_timestamp(pair, timestamp) == [pair EXCEPT !.last_sync = timestamp]

\* datetime.now().isoformat() at the end of the one run of a behaviour
isoformat_now == "now"

AllOptions ==
    [force_copy : BOOLEAN, create_backup : BOOLEAN, preserve_timestamp : BOOLEAN,
     max_workers : 1..MaxWorkers, dry_run : BOOLEAN]

Budget(runs, cancels, removals, previews) ==
    [runs |-> runs, cancels |-> cancels, removals |-> removals,
     previews |-> previews]

Filesystem(walk, src, tgt, nowrite, nobackup) ==
    [walk |-> walk, src |-> src, tgt |-> tgt, src_root |-> TRUE,
     dirs |-> {target_base}, backups |-> {}, nowrite |-> nowrite,
     nobackup |-> nobackup, same_path |-> FALSE]

\* a file the target held before any sync: its content is no source file's
old_content == << <<"o", "l", "d">> >>

Old(m) == [mtime |-> m, content |-> old_content]

EngineInit(f, o, p, b) ==
    /\ NoCall /\ NoWatcher
    /\ fs = f /\ fs0 = f /\ options = o /\ folder_pair = p /\ budget = b
    /\ eng = NewEngine /\ tasks = <<>> /\ cb = <<>> /\ hist = <<>>
    /\ preview = NotReturned /\ batch = <<>>

(***************************************************************************)
(* SpecFile: one call of _sync_single_file on one source file.             *)
(***************************************************************************)
InitFile ==
    \E sm \in Mtimes, o \in AllOptions, nw \in BOOLEAN, nb \in BOOLEAN :
      \E tg \in {<<>>} \cup {(target_base \o <<a_png>>) :> Old(m) : m \in Mtimes} :
        /\ o.max_workers = 1
        /\ NoCall /\ NoWatcher
        /\ fs = Filesystem(<<File(<<a_png>>)>>, (<<a_png>> :> [mtime |-> sm]), tg,
                           IF nw THEN {target_base \o <<a_png>>} ELSE {}, nb)
        /\ fs0 = fs
        /\ options = o
        /\ folder_pair = FolderPair(FilterRule(<<>>, <<>>, TRUE), <<>>)
        /\ budget = Budget(0, 0, 0, 0)
        /\ eng = [NewEngine EXCEPT !.pc = "file"]
        /\ tasks = <<NewTask(<<a_png>>, target_base \o <<a_png>>, "check")>>
        /\ cb = <<>> /\ hist = <<>> /\ preview = NotReturned /\ batch = <<>>

NextFile ==
    \/ \E k \in 1..Len(tasks) : StepCheck(k)
    \/ \E k \in 1..Len(tasks) : StepBackup(k)
    \/ \E k \in 1..Len(tasks) : StepCopy(k)

SpecFile == InitFile /\ [][NextFile]_vars

\* the copy of task t was attempted and ended as the filesystem allows:
\* copied, with the source's content and modification time at the
\* destination, unless the destination cannot be written
CopyAttempted(t) ==
    /\ t.outcome \in {"copied", "error"}
    /\ (t.outcome = "copied") <=> (t.dst \notin fs.nowrite)
    /\ t.outcome = "copied" =>
          /\ Exists(fs.tgt, t.dst)
          /\ fs.tgt[t.dst] = [mtime |-> fs.src[t.rel].mtime, content |-> t.rel]

\* C4: the per-file sync with dry_run = false.  With the destination present,
\* a source modification time strictly greater than the destination's has
\* the file copied (the copy is made; it ends in "error" exactly when the
\* destination cannot be written); one less than or equal, with
\* force_copy = false, has it skipped and the destination (the whole
\* filesystem) left as it was; with force_copy = true or the destination
\* missing the copy is always attempted.
C4_Staleness ==
    \A k \in 1..Len(tasks) :
        LET t == tasks[k] IN
        (t.st = "done" /\ ~options.dry_run) =>
            /\ (t.seen.tgt_exists /\ t.seen.src_mtime > t.seen.tgt_mtime)
                  => CopyAttempted(t)
            /\ (/\ t.seen.tgt_exists
                /\ t.seen.src_mtime <= t.seen.tgt_mtime
                /\ ~options.force_copy)
                  => (t.outcome = "skipped" /\ fs = fs0)
            /\ (options.force_copy \/ ~t.seen.tgt_exists) => CopyAttempted(t)

\* C4 witness: source and destination carry the same modification time,
\* force_copy is off, and the file has been skipped
C4_Witness ==
    \E k \in 1..Len(tasks) :
        /\ tasks[k].st = "done"
        /\ ~options.dry_run /\ ~options.force_copy
        /\ tasks[k].seen.tgt_exists
        /\ tasks[k].seen.src_mtime = tasks[k].seen.tgt_mtime
        /\ tasks[k].outcome = "skipped"

\* C21: one call of the per-file sync with create_backup = true (and
\* dry_run = false).
\* A destination that is overwritten had its content copied into the
\* sibling backup directory before it was overwritten, unless the backup
\* failed; a failed backup does not stop the copy, which is made and
\* reported as the filesystem allows; and backup_file is not called for a
\* file that is skipped or whose destination did not exist.
BackedUp(t) ==
    /\ (t.replaced.st = "replaced" /\ ~fs.nobackup) =>
            /\ t.backup = "made"
            /\ t.replaced.saved
    /\ t.backup = "failed" =>
            /\ t.outcome \in {"copied", "error"}
            /\ (t.outcome = "copied") <=>
                  (Exists(fs.src, t.rel) /\ t.dst \notin fs.nowrite)
    /\ t.outcome = "skipped" => t.backup = "none"
    /\ (t.replaced.st = "none" /\ ~t.seen.tgt_exists) => t.backup = "none"

C21_BackupBeforeOverwrite ==
    (options.create_backup /\ ~options.dry_run) =>
        \A k \in 1..Len(tasks) : tasks[k].st = "done" => BackedUp(tasks[k])

\* C21 in a whole run: it holds as long as no two workers run the per-file
\* sync on one destination at once
C21_SequentialBackup ==
    options.max_workers = 1 => C21_BackupBeforeOverwrite

\* C21 witness: a stale destination was backed up and then overwritten
C21_Witness ==
    /\ options.create_backup /\ ~options.dry_run
    /\ \E k \in 1..Len(tasks) :
          /\ tasks[k].st = "done" /\ tasks[k].outcome = "copied"
          /\ tasks[k].backup = "made"
          /\ tasks[k].replaced.st = "replaced" /\ tasks[k].replaced.saved
          /\ tasks[k].replaced.content = old_content

(***************************************************************************)
(* SpecSync: one run of sync_folder_pair over a tree of three files, in    *)
(* sequential or parallel mode, with cancel() and the removal of a source  *)
(* file by another process as its environment.                             *)
(***************************************************************************)
Tree3 == <<File(<<a_png>>), File(<<b_png>>), Dir(<<sub>>), File(<<sub, a_png>>)>>

Src3 == (<<a_png>> :> [mtime |-> 2]) @@ (<<b_png>> :> [mtime |-> 2])
            @@ (<<sub, a_png>> :> [mtime |-> 1])

\* the target tree before the run: empty, or a.png up to date and b.png stale
TargetPool3 ==
    { <<>>,
      ((target_base \o <<a_png>>) :> Old(2)) @@ ((target_base \o <<b_png>>) :> Old(1)) }

FilterPool3 ==
    { FilterRule(<<>>, <<>>, TRUE),
      FilterRule(<<g_png>>, <<g_tmp>>, TRUE),
      FilterRule(<<r_bad>>, <<>>, TRUE) }

RenamePool3 == { <<>>, <<RenameRule(a_png, x_png, TRUE)>> }

OptionPool3 == {o \in AllOptions : o.preserve_timestamp /\ o.create_backup}

InitSync ==
    \E tg \in TargetPool3, nw \in {{}, {target_base \o <<sub, a_png>>}},
       fr \in FilterPool3, rr \in RenamePool3, o \in OptionPool3 :
        EngineInit(Filesystem(Tree3, Src3, tg, nw, FALSE), o,
                   FolderPair(fr, rr), Budget(1, 1, 1, 0))

NextSync ==
    \/ SyncFolderPairBegin
    \/ SyncFolderPairScan
    \/ SeqNext
    \/ SeqRecord
    \/ Submit
    \/ \E k \in 1..Len(tasks) : WorkerStart(k)
    \/ \E k \in 1..Len(tasks) : StepCheck(k)
    \/ \E k \in 1..Len(tasks) : StepBackup(k)
    \/ \E k \in 1..Len(tasks) : StepCopy(k)
    \/ \E k \in 1..Len(tasks) : Collect(k)
    \/ CollectEnd
    \/ Shutdown
    \/ SyncFolderPairEnd
    \/ Cancel
    \/ \E rel \in DOMAIN fs.src : SourceFileRemoved(rel)

SpecSync == InitSync /\ [][NextSync]_vars

Range(seq) == {seq[i] : i \in 1..Len(seq)}

\* the run returned after its copy phase (the scan found files)
ReturnedFromCopy == eng.pc = "done" /\ eng.files # <<>>

\* C1: after a run that reached the copy phase and was not cancelled every
\* scanned file appears, as its source-relative path, in exactly one of
\* copied_files, skipped_files, error_files, and the lists hold nothing else.
C1_Partition ==
    (ReturnedFromCopy /\ ~eng._cancelled) =>
        LET r == eng.result
            all == r.copied_files \o r.skipped_files \o r.error_files
        IN  /\ Range(all) = Range(eng.files)
            /\ Len(all) = Len(eng.files)

\* C2: once cancel() has set the flag during the copy phase, no per-file
\* sync that had not started is begun, in sequential and in parallel mode,
\* work items already submitted to the pool included.
C2_NoStartAfterCancel ==
    \A k \in 1..Len(tasks) : ~tasks[k].late

(***************************************************************************)
(* SpecTwice: sync_folder_pair is run twice in succession on the same      *)
(* folder pair; nothing else touches the filesystem and nobody cancels.    *)
(* SpecPreview: the caller may ask for the preview, then runs the sync     *)
(* once.                                                                   *)
(***************************************************************************)
Tree2 == <<File(<<a_png>>), File(<<b_png>>), File(<<b_tmp>>)>>

\* a.png and b.png with any modification times, b.tmp filtered out; the
\* target empty or holding a.png; b.png writable or not; no rename rule or
\* one that sends a.png onto b.png
InitTree2(o, b) ==
    \E ma \in Mtimes, mb \in Mtimes,
       rr \in { <<>>, <<RenameRule(a_png, b_png, TRUE)>> },
       nw \in { {}, {target_base \o <<b_png>>} } :
      \E tg \in {<<>>} \cup {(target_base \o <<a_png>>) :> Old(m) : m \in Mtimes} :
        EngineInit(
            Filesystem(Tree2,
                       (<<a_png>> :> [mtime |-> ma]) @@ (<<b_png>> :> [mtime |-> mb])
                          @@ (<<b_tmp>> :> [mtime |-> 1]),
                       tg, nw, FALSE),
            o, FolderPair(FilterRule(<<>>, <<g_tmp>>, TRUE), rr), b)

InitTwice == \E o \in AllOptions : InitTree2(o, Budget(2, 0, 0, 0))

InitPreview == \E o \in OptionPool3 : InitTree2(o, Budget(1, 0, 0, 1))

NextTwice ==
    \/ SyncFolderPairBegin
    \/ SyncFolderPairScan
    \/ SeqNext
    \/ SeqRecord
    \/ Submit
    \/ \E k \in 1..Len(tasks) : WorkerStart(k)
    \/ \E k \in 1..Len(tasks) : StepCheck(k)
    \/ \E k \in 1..Len(tasks) : StepBackup(k)
    \/ \E k \in 1..Len(tasks) : StepCopy(k)
    \/ \E k \in 1..Len(tasks) : Collect(k)
    \/ CollectEnd
    \/ Shutdown
    \/ SyncFolderPairEnd

NextPreview == GetSyncPreview \/ NextTwice

SpecTwice == InitTwice /\ [][NextTwice]_vars

SpecPreview == InitPreview /\ [][NextPreview]_vars

\* two scanned files are given the same destination
Collision ==
    \E i, j \in 1..Len(eng.files) :
        /\ i # j
        /\ TargetFile(source_base \o eng.files[i], folder_pair)
              = TargetFile(source_base \o eng.files[j], folder_pair)

SecondRunSkipsAll ==
    /\ hist[2].copied_files = <<>>
    /\ Range(hist[2].skipped_files) = Range(eng.files)
    /\ Len(hist[2].skipped_files) = Len(eng.files)

\* C3: two runs in succession on unchanged source files with
\* force_copy = false, whatever the other options, the first run without
\* errors: the second run copies nothing and skips every scanned file.
C3_Idempotent ==
    (/\ Len(hist) = 2
     /\ ~options.force_copy
     /\ hist[1].success /\ hist[1].error_files = <<>>)
        => SecondRunSkipsAll

\* where C3 does hold: the runs that write (dry_run = false) and either are
\* sequential or have no two scanned files renamed onto one destination
C3_IdempotentReal ==
    (/\ Len(hist) = 2
     /\ ~options.force_copy
     /\ ~options.dry_run
     /\ options.max_workers = 1 \/ ~Collision
     /\ hist[1].success /\ hist[1].error_files = <<>>)
        => SecondRunSkipsAll

\* C3 witness: a parallel first run copied two files without error and the
\* second run is over
C3_Witness ==
    /\ Len(hist) = 2
    /\ ~options.force_copy /\ ~options.dry_run
    /\ options.max_workers > 1
    /\ Len(hist[1].copied_files) = 2
    /\ hist[1].error_files = <<>>
    /\ Len(hist[2].skipped_files) = 2

PreviewedRun ==
    /\ preview.st = "returned"
    /\ eng.pc = "done"
    /\ Len(hist) = 1

sync_single_file(f, rel, dst, o) ==
    IF o.dry_run THEN [outcome |-> "copied", fs |-> f]
    ELSE IF ~o.force_copy /\ Exists(f.tgt, dst) /\ ~is_file_newer(f, rel, dst)
    THEN [outcome |-> "skipped", fs |-> f]
    ELSE LET b == IF o.create_backup /\ Exists(f.tgt, dst)
                  THEN backup_file(f, dst).fs ELSE f
             c == copy_file_with_metadata(b, rel, dst, o.preserve_timestamp)
         IN  [outcome |-> IF c.ok THEN "copied" ELSE "error", fs |-> c.fs]

\* sync_engine.py:183-215 on `files`, never cancelled: the sets of copied,
\* skipped and failed files and the filesystem left behind
RECURSIVE sync_files_sequential(_, _, _, _)
sync_files_sequential(f, files, pair, o) ==
    IF files = <<>>
    THEN [copied |-> {}, skipped |-> {}, error |-> {}, fs |-> f]
    ELSE LET rel == Head(files)
             one == sync_single_file(f, rel,
                        TargetFile(source_base \o rel, pair), o)
             rest == sync_files_sequential(one.fs, Tail(files), pair, o)
         IN  [rest EXCEPT
                !.copied = IF one.outcome = "copied" THEN @ \cup {rel} ELSE @,
                !.skipped = IF one.outcome = "skipped" THEN @ \cup {rel} ELSE @,
                !.error = IF one.outcome = "error" THEN @ \cup {rel} ELSE @]

\* the sequential run of sync_folder_pair on the filesystem the last run
\* started on
SequentialRun ==
    LET f == ensure_directory(fs0, target_base).fs
    IN  sync_files_sequential(f, collect_sync_files(f, folder_pair.filter_rule).files,
                              folder_pair, options)

\* the first run of sync_folder_pair has returned after its copy phase
FirstRunReturned == Len(hist) = 1 /\ ReturnedFromCopy

SameAsSequential ==
    /\ Range(hist[1].copied_files) = SequentialRun.copied
    /\ Range(hist[1].skipped_files) = SequentialRun.skipped
    /\ Range(hist[1].error_files) = SequentialRun.error
    /\ fs.tgt = SequentialRun.fs.tgt

\* C29: on the same folder pair, options and initial filesystem a run with
\* max_workers > 1 that is not cancelled ends with the copied, skipped and
\* error sets and the target contents of the sequential run, under every
\* scheduling of the workers, also when rename rules send two source files
\* to one destination.
C29_ParallelAsSequential ==
    (FirstRunReturned /\ options.max_workers > 1) => SameAsSequential

\* the sequential run of the engine is the function above
C29_SequentialIsSequential ==
    (FirstRunReturned /\ options.max_workers = 1) => SameAsSequential

\* where C29 does hold: no two scanned files have the same destination
C29_WithoutCollision ==
    (FirstRunReturned /\ options.max_workers > 1 /\ ~Collision)
        => SameAsSequential

\* a parallel run over two files of different destinations that copied both
C29_ParallelCopiedBoth ==
    /\ FirstRunReturned /\ options.max_workers > 1 /\ ~Collision
    /\ ~options.dry_run
    /\ Len(hist[1].copied_files) = 2


(***************************************************************************)
(* FileWatcher and its SyncEventHandlers.  A path is the sequence of its   *)
(* components; the clock counts seconds.  The observer of a folder pair    *)
(* dispatches the events of its tree one at a time on its own thread, so a *)
(* handler method runs to its end before the next one of the same handler  *)
(* starts; _debounce_event and _add_event each hold a lock.                *)
(***************************************************************************)
DebounceSeconds == 2

MaxClock == 5
MaxEvents == 3

p1 == <<"p", "1">>
p2 == <<"p", "2">>
p3 == <<"p", "3">>

WatchedPair(id, filter_rule, auto_sync) ==
    [id |-> id, source_path |-> source_base \o <<id>>, auto_sync |-> auto_sync]
        @@ FolderPair(filter_rule, <<>>)

WatchEvent(event_type, file_path, folder_pair_id, now) ==
    [event_type |-> event_type, file_path |-> file_path,
     folder_pair_id |-> folder_pair_id, timestamp |-> now]

\* Path(p).is_dir(): the path is on the disk and is a directory
is_dir(present, path) == path \in present /\ (Len(path) = 2 \/ Last(path) = ui)

\* "true" | "false" | "raise"
should_process_file(handler, present, file_path) ==
    IF is_dir(present, file_path) THEN "false"
    ELSE match_patterns(file_path, handler.folder_pair.filter_rule.include_patterns,
                        handler.folder_pair.filter_rule.exclude_patterns)

\* the window test reversed: an event is dropped when it comes late
debounce_event_late(recent, file_path, now) ==
    IF file_path \in DOMAIN recent /\ now - recent[file_path] > DebounceSeconds
    THEN [ok |-> FALSE, recent |-> recent]
    ELSE [ok |-> TRUE, recent |-> (file_path :> now) @@ recent]

\* _debounce_event: whether the event passes, and _recent_events afterwards
debounce_event(recent, file_path, now) ==
    IF file_path \in DOMAIN recent /\ now - recent[file_path] < DebounceSeconds
    THEN [ok |-> FALSE, recent |-> recent]
    ELSE LET stamped == (file_path :> now) @@ recent
             cutoff_time == now - DebounceSeconds * 2
             keep == {key \in DOMAIN stamped : ~(stamped[key] < cutoff_time)}
         IN  [ok |-> TRUE, recent |-> [key \in keep |-> stamped[key]]]

\* FileWatcher.__init__.  _processor_thread is 0 (None) or the number of
\* the consumer thread started last; threads[t] is consumer thread t, the
\* threads that ended included
NewWatcher ==
    [_observers |-> <<>>, _event_handlers |-> <<>>, _event_queue |-> <<>>,
     _is_running |-> FALSE, _callbacks |-> <<>>, _processor_thread |-> 0,
     threads |-> <<>>]

\* a thread running _process_events, about to test `while self._is_running`
NewConsumer == [pc |-> "test", events_to_process |-> <<>>, e |-> 0, it |-> 0]

\* file_watcher.py:205-207: _is_running is set and the consumer thread is
\* made and started
Spawned(w) ==
    [w EXCEPT !._is_running = TRUE,
              !.threads = Append(@, NewConsumer),
              !._processor_thread = Len(w.threads) + 1]

NewHandler(pair, gen) ==
    [folder_pair |-> pair, _recent_events |-> <<>>, gen |-> gen]

\* the folder pairs start_watching sets an observer up for
Watchable(pairs, present) ==
    {i \in DOMAIN pairs : /\ pairs[i].enabled /\ pairs[i].auto_sync
                          /\ pairs[i].source_path \in present}

\* a stop_watching that leaves the handler registry as it is
stop_watching_keeps_handlers(w) ==
    [w EXCEPT !._is_running = FALSE, !._observers = <<>>, !._event_queue = <<>>]

\* stop_watching(): the consumer is told to stop, every observer is stopped
\* and joined, the two registries and the queue are cleared
stop_watching(w) ==
    [w EXCEPT !._is_running = FALSE, !._observers = <<>>,
              !._event_handlers = <<>>, !._event_queue = <<>>]

\* is_watching()
is_watching(w) == w._is_running /\ DOMAIN w._observers # {}

\* file_watcher.py:177-199: the previous watch is stopped and every
\* watchable pair gets a new observer, not yet started, and a new handler
Registered(w, pairs, present, gen) ==
    LET ids == {pairs[i].id : i \in Watchable(pairs, present)}
        pairOf(id) == CHOOSE q \in Range(pairs) : q.id = id
    IN  [stop_watching(w) EXCEPT
            !._observers = [id \in ids |-> "new"],
            !._event_handlers = [id \in ids |-> NewHandler(pairOf(id), gen)]]

\* start_watching(folder_pairs), stop_watching() at its head included: the
\* observers and handlers of the previous start are dropped, the queue is
\* cleared, every watchable pair gets a new observer and a new handler, the
\* observers are started and the consumer thread is started.  The steps of
\* the consumer are actions of their own (ConsumerTest and the ones after
\* it), and the join at the end of stop_watching is JoinConsumer.
StartWatching ==
    /\ wlog.starts_left > 0
    /\ LET w == Registered(fw, wlog.folder_pairs, wlog.present, wlog.starts + 1)
       IN  fw' = Spawned([w EXCEPT !._observers = [id \in DOMAIN @ |-> "alive"]])
    /\ wlog' = [wlog EXCEPT !.starts = @ + 1, !.starts_left = @ - 1,
                            !.last = "start", !.before = wlog.last,
                            !.prior = fw, !.edited = {}]
    /\ UNCHANGED <<pureVars, syncVars, clock>>

\* start_watching(folder_pairs) when observer.start() raises (the system
\* refuses another watch): the observers in `started` are running, the
\* others are registered and never started, _is_running stays False and
\* the call returns False
StartWatchingFails(started) ==
    /\ wlog.starts_left > 0
    /\ LET w == Registered(fw, wlog.folder_pairs, wlog.present, wlog.starts + 1)
       IN  /\ started \subseteq DOMAIN w._observers
           /\ started # DOMAIN w._observers
           /\ fw' = [w EXCEPT !._observers =
                        [id \in DOMAIN @ |-> IF id \in started THEN "alive" ELSE "new"]]
    /\ wlog' = [wlog EXCEPT !.starts = @ + 1, !.starts_left = @ - 1,
                            !.last = "failed start", !.before = wlog.last,
                            !.prior = fw, !.edited = {}]
    /\ UNCHANGED <<pureVars, syncVars, clock>>

\* stop_watching() called by the application
StopWatching ==
    /\ wlog.stops_left > 0
    /\ fw' = stop_watching(fw)
    /\ wlog' = [wlog EXCEPT !.stops_left = @ - 1, !.last = "stop",
                            !.before = wlog.last, !.prior = fw]
    /\ UNCHANGED <<pureVars, syncVars, clock>>

\* the user switches the auto sync of a folder pair before the next start
SetAutoSync(i) ==
    /\ wlog.edits_left > 0
    /\ i \in DOMAIN wlog.folder_pairs
    /\ wlog' = [wlog EXCEPT !.edits_left = @ - 1, !.edited = @ \cup {i},
                            !.folder_pairs[i].auto_sync = ~@]
    /\ UNCHANGED <<pureVars, syncVars, fw, clock>>

Tick ==
    /\ clock < MaxClock
    /\ clock' = clock + 1
    /\ UNCHANGED <<pureVars, syncVars, fw, wlog>>

Dispatching(id) ==
    /\ id \in DOMAIN fw._observers
    /\ fw._observers[id] = "alive"
    /\ Len(wlog.events) < MaxEvents

Logged(id, event_type, file_path, fate) ==
    [handler |-> <<id, fw._event_handlers[id].gen>>, event_type |-> event_type,
     file_path |-> file_path, at |-> clock, fate |-> fate]

\* on_created / on_modified of the handler of pair `id`, the disk being
\* `present` when it runs; an exception of match_patterns leaves the handler
\* and ends the observer thread that called it
OnCreatedOrModified(id, event_type, file_path, present) ==
    LET handler == fw._event_handlers[id]
        sp == should_process_file(handler, present, file_path)
        db == debounce_event(handler._recent_events, file_path, clock)
        fate == IF sp = "raise" THEN "raised"
                ELSE IF sp = "false" THEN "ignored"
                ELSE IF db.ok THEN "queued" ELSE "debounced"
    IN  /\ fw' = [fw EXCEPT
                    !._observers[id] = IF sp = "raise" THEN "dead" ELSE @,
                    !._event_handlers[id]._recent_events =
                        IF sp = "true" THEN db.recent ELSE @,
                    !._event_queue =
                        IF fate = "queued"
                        THEN Append(@, WatchEvent(event_type, file_path, id, clock))
                        ELSE @]
        /\ wlog' = [wlog EXCEPT
                      !.present = present,
                      !.events = Append(@, Logged(id, event_type, file_path, fate))]

\* the tree of each folder pair: the names that come and go under its source
WatchNames(id) == IF id = p1 THEN {a_png, b_tmp, ui} ELSE {a_png}

FileCreated(id, name) ==
    LET file_path == source_base \o <<id, name>>
    IN  /\ Dispatching(id)
        /\ file_path \notin wlog.present
        /\ OnCreatedOrModified(id, "created", file_path,
                               wlog.present \cup {file_path})
        /\ UNCHANGED <<pureVars, syncVars, clock>>

FileModified(id, name) ==
    LET file_path == source_base \o <<id, name>>
    IN  /\ Dispatching(id)
        /\ file_path \in wlog.present
        /\ OnCreatedOrModified(id, "modified", file_path, wlog.present)
        /\ UNCHANGED <<pureVars, syncVars, clock>>

\* on_deleted: the path is gone when the handler looks at it
FileDeleted(id, name) ==
    LET file_path == source_base \o <<id, name>>
        present == wlog.present \ {file_path}
        fate == IF is_dir(present, file_path) THEN "ignored" ELSE "queued"
    IN  /\ Dispatching(id)
        /\ file_path \in wlog.present
        /\ fw' = [fw EXCEPT !._event_queue =
                     IF fate = "queued"
                     THEN Append(@, WatchEvent("deleted", file_path, id, clock))
                     ELSE @]
        /\ wlog' = [wlog EXCEPT
                      !.present = present,
                      !.events = Append(@, Logged(id, "deleted", file_path, fate))]
        /\ UNCHANGED <<pureVars, syncVars, clock>>

(***************************************************************************)
(* SpecWatch: a FileWatcher is constructed and started on three folder     *)
(* pairs, of which two ask for auto sync; files of their trees are         *)
(* created, modified and deleted while the clock runs.                     *)
(***************************************************************************)
WatchFilterPool ==
    {FilterRule(<<g_png>>, <<>>, TRUE), FilterRule(<<r_bad>>, <<>>, TRUE)}

\* the log of a watcher not yet started, and what its environment may do.
\* last is the last call made on the watcher (start, failed start, stop),
\* before the call made before it, prior the watcher before the last call,
\* edited the folder pairs changed since the last start
WatchLog(folder_pairs, starts_left, stops_left, edits_left) ==
    [folder_pairs |-> folder_pairs,
     present |-> {source_base \o <<id>> : id \in {p1, p2, p3}}
                    \cup {source_base \o <<p1, a_png>>},
     starts |-> 0, starts_left |-> starts_left, stops_left |-> stops_left,
     edits_left |-> edits_left, events |-> <<>>,
     last |-> "none", before |-> "none", prior |-> NewWatcher, edited |-> {}]

WatchedPairs(f2) ==
    << WatchedPair(p1, FilterRule(<<>>, <<g_tmp>>, TRUE), TRUE),
       WatchedPair(p2, f2, TRUE),
       WatchedPair(p3, FilterRule(<<>>, <<>>, TRUE), FALSE) >>

InitWatch ==
    \E f2 \in WatchFilterPool :
        /\ NoCall /\ NoEngine
        /\ fw = NewWatcher
        /\ clock = 0
        /\ wlog = WatchLog(WatchedPairs(f2), 1, 0, 0)

NextWatch ==
    \/ StartWatching
    \/ Tick
    \/ \E id \in {p1, p2, p3} : \E name \in WatchNames(id) : FileCreated(id, name)
    \/ \E id \in {p1, p2, p3} : \E name \in WatchNames(id) : FileModified(id, name)
    \/ \E id \in {p1, p2, p3} : \E name \in WatchNames(id) : FileDeleted(id, name)

SpecWatch == InitWatch /\ [][NextWatch]_vars

CreatedOrModified(e) == e.event_type \in {"created", "modified"}

SameHandlerAndPath(d, e) == d.handler = e.handler /\ d.file_path = e.file_path

\* the handler accepted an event for the path of e less than one window
\* before event number i
InsideWindow(i) ==
    \E k \in 1..(i - 1) :
        /\ SameHandlerAndPath(wlog.events[k], wlog.events[i])
        /\ CreatedOrModified(wlog.events[k])
        /\ wlog.events[k].fate = "queued"
        /\ wlog.events[i].at - wlog.events[k].at < DebounceSeconds

Passed(e) == e.fate \in {"queued", "debounced"}

\* C10: any two created/modified events one handler queued for one path
\* were accepted at least DebounceSeconds apart; and of two created/modified
\* events that pass the filter and reach a handler for one path less than
\* DebounceSeconds apart, the first coming outside any earlier window, the
\* first is queued and the second is not; the queue holds one WatchEvent
\* for each event logged as queued since the last start.
C10_Debounce ==
    /\ \A i, j \in DOMAIN wlog.events :
         LET d == wlog.events[i]
             e == wlog.events[j]
         IN  i < j /\ SameHandlerAndPath(d, e)
               /\ CreatedOrModified(d) /\ CreatedOrModified(e) =>
                 /\ d.fate = "queued" /\ e.fate = "queued"
                      => e.at - d.at >= DebounceSeconds
                 /\ Passed(d) /\ Passed(e) /\ e.at - d.at < DebounceSeconds
                      /\ ~InsideWindow(i)
                      => d.fate = "queued" /\ e.fate = "debounced"
    /\ Len(fw._event_queue) =
         Cardinality({i \in DOMAIN wlog.events :
                        /\ wlog.events[i].fate = "queued"
                        /\ wlog.events[i].handler[2] = wlog.starts})

\* two events for one path reached one handler inside the window and the
\* queue holds the WatchEvent of the first alone; the handler queued a later
\* event for that path
C10_Witness ==
    /\ \E i, j, k \in DOMAIN wlog.events :
         /\ i < j /\ j < k
         /\ SameHandlerAndPath(wlog.events[i], wlog.events[j])
         /\ SameHandlerAndPath(wlog.events[i], wlog.events[k])
         /\ wlog.events[i].fate = "queued"
         /\ wlog.events[j].event_type = "modified"
         /\ wlog.events[j].fate = "debounced"
         /\ wlog.events[k].event_type = "modified"
         /\ wlog.events[k].fate = "queued"
         /\ Len(fw._event_queue) = 2

\* the paths of the watched trees that are directories while they exist
IsDirectoryPath(path) == Len(path) = 2 \/ Last(path) = ui

\* C25: no WatchEvent is ever queued for a directory: created and modified
\* events on directories are dropped, and so is the deleted event of a path
\* that was a directory; the deleted event of a file is queued without
\* pattern filtering and without debounce.
C25_NoDirectoryEvents ==
    /\ \A i \in DOMAIN wlog.events :
          LET e == wlog.events[i]
          IN  /\ IsDirectoryPath(e.file_path) => e.fate = "ignored"
              /\ (e.event_type = "deleted" /\ ~IsDirectoryPath(e.file_path))
                    => e.fate = "queued"
    /\ \A i \in DOMAIN fw._event_queue :
          ~IsDirectoryPath(fw._event_queue[i].file_path)

\* where C25 does hold: every event but the deleted event of a directory
C25_ExceptDeletedDirectories ==
    /\ \A i \in DOMAIN wlog.events :
          LET e == wlog.events[i]
          IN  /\ (IsDirectoryPath(e.file_path) /\ e.event_type # "deleted")
                    => e.fate = "ignored"
              /\ (e.event_type = "deleted" /\ ~IsDirectoryPath(e.file_path))
                    => e.fate = "queued"
    /\ \A i \in DOMAIN fw._event_queue :
          IsDirectoryPath(fw._event_queue[i].file_path)
              => fw._event_queue[i].event_type = "deleted"

\* a directory was created and its event dropped, and a file excluded by
\* the filter was deleted and its event queued
C25_DroppedAndQueued ==
    \E i, j \in DOMAIN wlog.events :
        /\ wlog.events[i].event_type = "created"
        /\ IsDirectoryPath(wlog.events[i].file_path)
        /\ wlog.events[i].fate = "ignored"
        /\ wlog.events[j].event_type = "deleted"
        /\ Last(wlog.events[j].file_path) = b_tmp
        /\ wlog.events[j].fate = "queued"


(***************************************************************************)
(* SpecRun: one run of sync_folder_pair on a folder pair that may fail     *)
(* validation: the source directory may be missing, the target directory   *)
(* may exist, be missing or be impossible to create, and the target path   *)
(* may resolve to the source path (the target tree is then the source      *)
(* tree).  The scan may find two files, none, or raise; cancel() may come  *)
(* at any time.                                                            *)
(***************************************************************************)
RunTree == <<File(<<a_png>>), File(<<b_png>>)>>

RunSrc == (<<a_png>> :> [mtime |-> 2]) @@ (<<b_png>> :> [mtime |-> 1])

\* the target tree when the target path is the source path
Mirror(src) ==
    [dst \in {target_base \o rel : rel \in DOMAIN src} |->
        LET rel == CHOOSE r \in DOMAIN src : dst = target_base \o r
        IN  [mtime |-> src[rel].mtime, content |-> rel]]

RunOptions == {o \in AllOptions : o.preserve_timestamp /\ o.create_backup}

RunFilters ==
    { FilterRule(<<>>, <<>>, TRUE),
      FilterRule(<<>>, <<g_png>>, TRUE),
      FilterRule(<<r_bad>>, <<>>, TRUE) }

RunFilesystem(root, tdir, same, tg, nw) ==
    [Filesystem(IF root THEN RunTree ELSE <<>>,
                IF root THEN RunSrc ELSE <<>>,
                IF same THEN Mirror(RunSrc) ELSE tg,
                nw \cup (IF tdir = "uncreatable" THEN {target_base} ELSE {}),
                FALSE)
        EXCEPT !.src_root = root,
               !.dirs = IF tdir = "exists" THEN {target_base} ELSE {},
               !.same_path = same]

InitRun ==
    \E root \in BOOLEAN, tdir \in {"exists", "missing", "uncreatable"},
       same \in BOOLEAN, o \in RunOptions, fr \in RunFilters,
       nw \in { {}, {target_base \o <<b_png>>} },
       tg \in { <<>>, (target_base \o <<a_png>>) :> Old(2) } :
        /\ same => root /\ tdir = "exists" /\ nw = {} /\ tg = <<>>
        /\ tdir # "exists" => tg = <<>>
        /\ EngineInit(RunFilesystem(root, tdir, same, tg, nw), o,
                      FolderPair(fr, <<>>), Budget(1, 1, 0, 0))

NextRun ==
    \/ SyncFolderPairBegin
    \/ SyncFolderPairScan
    \/ SeqNext
    \/ SeqRecord
    \/ Submit
    \/ \E k \in 1..Len(tasks) : WorkerStart(k)
    \/ \E k \in 1..Len(tasks) : StepCheck(k)
    \/ \E k \in 1..Len(tasks) : StepBackup(k)
    \/ \E k \in 1..Len(tasks) : StepCopy(k)
    \/ \E k \in 1..Len(tasks) : Collect(k)
    \/ CollectEnd
    \/ Shutdown
    \/ SyncFolderPairEnd
    \/ Cancel

SpecRun == InitRun /\ [][NextRun]_vars

RunReturned == eng.pc = "done" /\ Len(hist) = 1

\* the callbacks of kind ev invoked so far
Invoked(ev) == {i \in 1..Len(cb) : cb[i].ev = ev}

\* C11: sync_folder_pair on a folder pair whose source path does not exist
\* invokes on_error exactly once and no other callback, changes nothing on
\* the filesystem (the target directory is not created) and returns a
\* result with success = false and three empty lists.
C11_MissingSource ==
    (RunReturned /\ ~fs0.src_root) =>
        /\ Cardinality(Invoked("on_error")) = 1
        /\ Len(cb) = 1
        /\ fs = fs0
        /\ eng.result = SyncResult(FALSE)
        /\ hist[1] = SyncResult(FALSE)
        /\ ~hist[1].success
        /\ hist[1].copied_files = <<>>
        /\ hist[1].skipped_files = <<>>
        /\ hist[1].error_files = <<>>

\* C11 witness: the run on a missing source returned and the target
\* directory, missing before, is still missing
C11_Witness ==
    /\ RunReturned
    /\ ~fs0.src_root
    /\ target_base \notin fs0.dirs
    /\ target_base \notin fs0.nowrite
    /\ target_base \notin fs.dirs


\* C12: a folder pair whose source and target resolve to the same path is
\* rejected: on_error is invoked and the run does not start, so that no
\* file is scanned, copied or backed up.
C12_SamePathRejected ==
    (fs0.same_path /\ eng.pc # "idle") =>
        /\ Invoked("on_start") = {}
        /\ eng.files = <<>>
        /\ tasks = <<>>
        /\ fs.backups = {}
        /\ RunReturned => Invoked("on_error") # {} /\ Invoked("on_complete") = {}


\* C13: with dry_run = true a complete run writes nothing to the
\* filesystem: no file or directory is created, modified or backed up, the
\* target root directory included when it did not exist before; and every
\* scanned file is reported with outcome copied.
C13_DryRunWritesNothing ==
    (RunReturned /\ options.dry_run /\ ~eng._cancelled /\ fs0.src_root) =>
        /\ fs = fs0
        /\ hist[1].success => /\ Range(hist[1].copied_files) = Range(eng.files)
                              /\ Len(hist[1].copied_files) = Len(eng.files)
                              /\ hist[1].skipped_files = <<>>
                              /\ hist[1].error_files = <<>>

\* where C13 does hold: the target root directory existed before the run
C13_DryRunWithTargetRoot ==
    target_base \in fs0.dirs => C13_DryRunWritesNothing


(***************************************************************************)
(* Per-file errors, the success flag and the completion callback, checked  *)
(* on the runs of SpecSync and SpecRun.                                    *)
(***************************************************************************)
\* the list of the result that outcome o is recorded in
ListOf(r, o) ==
    IF o = "copied" THEN r.copied_files
    ELSE IF o = "skipped" THEN r.skipped_files
    ELSE r.error_files

Progress == Invoked("on_file_progress")

\* the final status of scanned file rel in result r: error when error_files
\* holds it, as its relative or as its absolute path
FinalStatus(r, rel) ==
    IF rel \in Range(r.error_files) \/ (source_base \o rel) \in Range(r.error_files)
    THEN "error"
    ELSE IF rel \in Range(r.copied_files) THEN "copied"
    ELSE IF rel \in Range(r.skipped_files) THEN "skipped"
    ELSE "none"

\* C22: for every file processed by a run of sync_folder_pair an
\* on_file_progress call carrying its relative path and its final status
\* (copied, skipped or error) is made once the outcome is known, a file that
\* lands in error_files through an exception included; and the reported
\* current index never decreases and never exceeds the reported total.
C22_ProgressPerFile ==
    /\ \A i \in Progress :
          /\ cb[i].current <= cb[i].total
          /\ \A j \in Progress : i < j => cb[i].current <= cb[j].current
    /\ (ReturnedFromCopy /\ ~eng._cancelled) =>
          \A f \in 1..Len(eng.files) :
              LET rel == eng.files[f]
                  status == FinalStatus(eng.result, rel)
              IN  /\ status # "none"
                  /\ \E i \in Progress :
                        /\ cb[i].file_path = rel
                        /\ cb[i].status = status

\* where C22 does hold: the runs in which no source file was removed
C22_ProgressWithoutRemoval ==
    budget.removals > 0 => C22_ProgressPerFile

\* C15: the result returned after the copy phase, the run complete or
\* cancelled part-way, has success = true exactly when its error_files is
\* empty.
C15_SuccessIffNoError ==
    ReturnedFromCopy =>
        (eng.result.success <=> eng.result.error_files = <<>>)

\* the half of C15 that holds: without a recorded error the result has
\* success = true, cancelled or not
C15_NoErrorIsSuccess ==
    (ReturnedFromCopy /\ eng.result.error_files = <<>>) => eng.result.success


\* the run passed validation and its scan returned a list of files
ScannedRun ==
    /\ RunReturned
    /\ fs0.src_root
    /\ target_base \notin fs0.nowrite
    /\ ~collect_sync_files(fs0, folder_pair.filter_rule).raised

\* C16: a run that passes validation invokes on_complete exactly once,
\* with the returned result, when the cancellation flag is not set at the
\* end of copying, the empty scan included; it does not invoke on_complete
\* at all when the run was cancelled, and a cancelled run returns without
\* invoking on_error.
C16_CompleteUnlessCancelled ==
    ScannedRun =>
        /\ ~eng._cancelled =>
              /\ Cardinality(Invoked("on_complete")) = 1
              /\ \A i \in Invoked("on_complete") : cb[i].result = hist[1]
        /\ eng._cancelled =>
              /\ Invoked("on_complete") = {}
              /\ Invoked("on_error") = {}

\* where C16 does hold: the runs whose scan found a file
C16_CompleteAfterCopying ==
    eng.files # <<>> => C16_CompleteUnlessCancelled

\* the run completed successfully: on_complete was invoked with a result
\* whose success is true
CompletedSuccessfully ==
    /\ RunReturned
    /\ \E i \in Invoked("on_complete") : cb[i].result.success

\* C19: after a sync of a folder pair that completed successfully the pair's
\* last_sync has been written back (it is not None and names this run); after
\* a failed or cancelled run last_sync is what it was; and no other field of
\* the FolderPair was modified.
C19_LastSyncWrittenBack ==
    RunReturned =>
        \E pair \in {FolderPair(fr, <<>>) : fr \in RunFilters} :
            folder_pair = IF CompletedSuccessfully
                          THEN update_sync_timestamp(pair, isoformat_now)
                          ELSE pair

\* where C19 does hold: the engine writes no field of the FolderPair
C19_PairReadOnly == [][folder_pair' = folder_pair]_vars

\* a run that completed successfully and copied a file
C19_CompletedRun ==
    CompletedSuccessfully /\ hist[1].copied_files # <<>>


(***************************************************************************)
(* SyncEngine.sync_multiple_folder_pairs.  batch.pairs[k] is a folder pair *)
(* and the filesystem its paths name; the call of sync_folder_pair on      *)
(* pair k puts that filesystem in fs, runs the actions of sync_folder_pair *)
(* and stores fs back.  The counters are the locals total_files,           *)
(* processed_files, copied_files, skipped_files and error_files;           *)
(* batch.synced lists, in order, the pairs sync_folder_pair was called on, *)
(* batch.synced_at_cancel is its length when cancel() was called, and      *)
(* batch.cancel_before_reset tells that cancel() was called after the loop *)
(* decided to sync a pair and before sync_folder_pair reset the flag;      *)
(* batch.completions counts the on_complete calls made by                  *)
(* sync_multiple_folder_pairs itself.                                      *)
(***************************************************************************)
NewBatch(pairs) ==
    [pc |-> "idle", pairs |-> pairs, k |-> 0,
     total_files |-> 0, processed_files |-> 0, copied_files |-> 0,
     skipped_files |-> 0, error_files |-> 0,
     result |-> SyncResult(FALSE), synced |-> <<>>, synced_at_cancel |-> 0,
     cancel_before_reset |-> FALSE, completions |-> 0]

\* f"複数同期: {count}ファイル", the one entry of a list of the batch result
BatchEntry(count) == [label |-> "multi", count |-> count]

\* sync_engine.py:438-445: the files of the enabled pairs whose source
\* exists, counted before any pair is synced: [raised, total]
RECURSIVE PreCount(_)
PreCount(pairs) ==
    IF pairs = <<>> THEN [raised |-> FALSE, total |-> 0]
    ELSE LET p == Head(pairs)
             rest == PreCount(Tail(pairs))
             scan == collect_sync_files(p.fs, p.folder_pair.filter_rule)
         IN  IF ~p.folder_pair.enabled \/ ~source_exists(p.fs) THEN rest
             ELSE IF scan.raised \/ rest.raised
                  THEN [raised |-> TRUE, total |-> 0]
             ELSE [raised |-> FALSE, total |-> Len(scan.files) + rest.total]

\* sync_engine.py:418-454
BatchBegin ==
    /\ batch.pc = "idle"
    /\ eng.pc = "idle"
    /\ LET count == PreCount(batch.pairs)
       IN  IF count.raised
           THEN /\ cb' = Append(cb, OnError)
                /\ batch' = [batch EXCEPT !.pc = "done"]
           ELSE IF count.total = 0
           THEN /\ cb' = Append(cb, OnComplete(SyncResult(TRUE)))
                /\ batch' = [batch EXCEPT !.pc = "done",
                                          !.result = SyncResult(TRUE),
                                          !.completions = @ + 1]
           ELSE /\ cb' = Append(cb, OnStart(count.total))
                /\ batch' = [batch EXCEPT !.pc = "loop", !.k = 1,
                                          !.total_files = count.total]
    /\ eng' = [eng EXCEPT !._cancelled = FALSE]
    /\ UNCHANGED <<pureVars, watchVars, fs, fs0, options, folder_pair, tasks, hist,
                   preview, budget>>

\* a loop over the folder pairs that a failed pair ends
BatchLoopEndsOnFailure(b, e) ==
    b.k > Len(b.pairs) \/ e._cancelled \/ b.error_files > 0

\* `for folder_pair in folder_pairs: if self._cancelled: break`
BatchLoopEnds(b, e) == b.k > Len(b.pairs) \/ e._cancelled

\* sync_engine.py:457-468: the head of the loop over the pairs; a disabled
\* pair is passed over, an enabled one has sync_folder_pair called
BatchNext ==
    /\ batch.pc = "loop"
    /\ IF BatchLoopEnds(batch, eng)
       THEN /\ batch' = [batch EXCEPT !.pc = "end"]
            /\ UNCHANGED <<fs, folder_pair, budget>>
       ELSE IF ~batch.pairs[batch.k].folder_pair.enabled
       THEN /\ batch' = [batch EXCEPT !.k = @ + 1]
            /\ UNCHANGED <<fs, folder_pair, budget>>
       ELSE /\ batch' = [batch EXCEPT !.pc = "call",
                                      !.synced = Append(@, batch.k)]
            /\ fs' = batch.pairs[batch.k].fs
            /\ folder_pair' = batch.pairs[batch.k].folder_pair
            /\ budget' = [budget EXCEPT !.runs = 1]
    /\ UNCHANGED <<pureVars, watchVars, fs0, options, eng, tasks, cb, hist, preview>>

\* sync_engine.py:468-477: sync_folder_pair returned single_result
BatchRecord ==
    /\ batch.pc = "call"
    /\ eng.pc = "done"
    /\ budget.runs = 0
    /\ LET single_result == eng.result
           n == Len(single_result.copied_files) + Len(single_result.skipped_files)
                   + Len(single_result.error_files)
       IN  batch' = [batch EXCEPT
                !.pc = "loop",
                !.k = @ + 1,
                !.pairs[batch.k].fs = fs,
                !.copied_files = IF single_result.success
                                 THEN @ + Len(single_result.copied_files) ELSE @,
                !.skipped_files = IF single_result.success
                                  THEN @ + Len(single_result.skipped_files) ELSE @,
                !.error_files = IF single_result.success
                                THEN @ + Len(single_result.error_files) ELSE @ + 1,
                !.processed_files = @ + n]
    /\ UNCHANGED <<pureVars, watchVars, fs, fs0, options, folder_pair, eng, tasks, cb,
                   hist, preview, budget>>

\* sync_engine.py:479-491: the batch result; on_complete unless the flag is
\* set
BatchEnd ==
    /\ batch.pc = "end"
    /\ LET result ==
             [success |-> ~eng._cancelled /\ batch.error_files = 0,
              copied_files |-> <<BatchEntry(batch.copied_files)>>,
              skipped_files |-> <<BatchEntry(batch.skipped_files)>>,
              error_files |-> IF batch.error_files > 0
                              THEN <<BatchEntry(batch.error_files)>> ELSE <<>>]
       IN  /\ batch' = [batch EXCEPT
                            !.pc = "done", !.result = result,
                            !.completions = IF eng._cancelled THEN @ ELSE @ + 1]
           /\ cb' = IF eng._cancelled THEN cb ELSE Append(cb, OnComplete(result))
    /\ UNCHANGED <<pureVars, watchVars, fs, fs0, options, folder_pair, eng, tasks, hist,
                   preview, budget>>

(***************************************************************************)
(* SpecBatch: sync_multiple_folder_pairs on three folder pairs, each with  *)
(* a source of one file.  A pair is enabled or not; its source may be      *)
(* missing, its target directory impossible to create, its destination     *)
(* file unwritable, its filter a malformed regular expression.             *)
(***************************************************************************)
BatchFs(kind) ==
    LET ok == Filesystem(<<File(<<a_png>>)>>, (<<a_png>> :> [mtime |-> 1]), <<>>,
                         {}, FALSE)
    IN  CASE kind = "missing" ->
               [ok EXCEPT !.src_root = FALSE, !.walk = <<>>, !.src = <<>>]
          [] kind = "uncreatable" ->
               [ok EXCEPT !.dirs = {}, !.nowrite = {target_base}]
          [] kind = "unwritable" ->
               [ok EXCEPT !.nowrite = {target_base \o <<a_png>>}]
          [] OTHER -> ok

BatchPair(enabled, kind) ==
    [folder_pair |->
        [FolderPair(IF kind = "badfilter" THEN FilterRule(<<r_bad>>, <<>>, TRUE)
                    ELSE FilterRule(<<>>, <<>>, TRUE), <<>>)
            EXCEPT !.enabled = enabled],
     fs |-> BatchFs(kind)]

BatchPairPool ==
    {BatchPair(TRUE, kind) :
        kind \in {"ok", "missing", "uncreatable", "unwritable", "badfilter"}}
        \cup {BatchPair(FALSE, "ok")}

BatchOptions ==
    {o \in AllOptions : /\ o.preserve_timestamp /\ o.create_backup
                        /\ ~o.force_copy /\ ~o.dry_run}

InitBatch ==
    \E pairs \in [1..3 -> BatchPairPool], o \in BatchOptions :
        /\ NoCall /\ NoWatcher
        /\ fs = pairs[1].fs /\ fs0 = fs
        /\ folder_pair = pairs[1].folder_pair
        /\ options = o
        /\ budget = Budget(0, 1, 0, 0)
        /\ eng = NewEngine /\ tasks = <<>> /\ cb = <<>> /\ hist = <<>>
        /\ preview = NotReturned
        /\ batch = NewBatch(pairs)

NextBatch ==
    \/ BatchBegin
    \/ BatchNext
    \/ BatchRecord
    \/ BatchEnd
    \/ SyncFolderPairBegin
    \/ SyncFolderPairScan
    \/ SeqNext
    \/ SeqRecord
    \/ Submit
    \/ \E k \in 1..Len(tasks) : WorkerStart(k)
    \/ \E k \in 1..Len(tasks) : StepCheck(k)
    \/ \E k \in 1..Len(tasks) : StepBackup(k)
    \/ \E k \in 1..Len(tasks) : StepCopy(k)
    \/ \E k \in 1..Len(tasks) : Collect(k)
    \/ CollectEnd
    \/ Shutdown
    \/ SyncFolderPairEnd
    \/ Cancel

SpecBatch == InitBatch /\ [][NextBatch]_vars

\* the batch went through its loop over the pairs and returned, the flag
\* not set
BatchCompleted ==
    batch.pc = "done" /\ batch.total_files > 0 /\ ~eng._cancelled

IsEnabledPair(i) == batch.pairs[i].folder_pair.enabled

\* the indices of the enabled pairs, in list order
EnabledPairs == SelectSeq([i \in 1..Len(batch.pairs) |-> i], IsEnabledPair)

\* what the first n pair results add to the combined error count: one for
\* a failed pair, the number of its error files for the others
RECURSIVE ErrorsOf(_)
ErrorsOf(n) ==
    IF n = 0 THEN 0
    ELSE ErrorsOf(n - 1)
            + (IF hist[n].success THEN Len(hist[n].error_files) ELSE 1)

\* C17: in sync_multiple_folder_pairs a pair whose own sync returns
\* success = false adds exactly one to the combined error count and does
\* not stop the batch: every enabled pair is synced, in list order, and no
\* disabled pair is.
C17_FailedPairDoesNotStopBatch ==
    BatchCompleted =>
        /\ batch.synced = EnabledPairs
        /\ Len(hist) = Len(batch.synced)
        /\ batch.error_files = ErrorsOf(Len(hist))
        /\ batch.result.error_files =
              IF batch.error_files > 0 THEN <<BatchEntry(batch.error_files)>>
              ELSE <<>>

\* C17 witness: the batch is over, the sync of its first pair failed, its
\* second pair is disabled, its third pair was synced and copied its file,
\* and the combined error count is one
C17_Witness ==
    /\ BatchCompleted
    /\ batch.synced = <<1, 3>>
    /\ ~hist[1].success
    /\ ~IsEnabledPair(2)
    /\ Len(hist[2].copied_files) = 1
    /\ batch.error_files = 1

\* C24: in sync_multiple_folder_pairs the progress sink sees one batch:
\* on_start is invoked exactly once, before any file is processed, with the
\* sum of the scanned file counts of all enabled pairs; every later
\* on_file_progress reports that same total; and on_complete is invoked at
\* most once, after the last pair.
C24_OneBatch ==
    batch.total_files > 0 =>
        /\ Cardinality(Invoked("on_start")) = 1
        /\ cb[1] = OnStart(batch.total_files)
        /\ \A i \in Progress : cb[i].total = batch.total_files
        /\ Cardinality(Invoked("on_complete")) <= 1
        /\ \A i \in Invoked("on_complete") : batch.pc = "done" /\ i = Len(cb)

\* what of C24 does hold: the first callback is on_start with the sum of
\* the scanned file counts, and sync_multiple_folder_pairs itself invokes
\* on_complete at most once, as the last callback of the call
C24_BatchCallbacks ==
    batch.total_files > 0 =>
        /\ cb[1] = OnStart(batch.total_files)
        /\ batch.completions <= 1
        /\ batch.completions = 1 =>
              /\ batch.pc = "done"
              /\ cb[Len(cb)] = OnComplete(batch.result)

(***************************************************************************)
(* SpecBatchCancel: sync_multiple_folder_pairs with cancel() called from   *)
(* another thread at any moment between its first statement and its        *)
(* return: inside the sync of a pair, between two pairs, or after the loop *)
(* read the flag and before sync_folder_pair resets it (line 90).          *)
(***************************************************************************)
CancelDuringBatch ==
    /\ batch.pc \in {"loop", "call", "end"}
    /\ budget.cancels > 0
    /\ budget' = [budget EXCEPT !.cancels = @ - 1]
    /\ eng' = [eng EXCEPT !._cancelled = TRUE]
    /\ batch' = [batch EXCEPT
                    !.synced_at_cancel = Len(batch.synced),
                    !.cancel_before_reset = (batch.pc = "call" /\ budget.runs > 0)]
    /\ UNCHANGED <<pureVars, watchVars, fs, fs0, options, folder_pair, tasks, cb,
                   hist, preview>>

NextBatchCancel ==
    \/ BatchBegin
    \/ BatchNext
    \/ BatchRecord
    \/ BatchEnd
    \/ SyncFolderPairBegin
    \/ SyncFolderPairScan
    \/ SeqNext
    \/ SeqRecord
    \/ Submit
    \/ \E k \in 1..Len(tasks) : WorkerStart(k)
    \/ \E k \in 1..Len(tasks) : StepCheck(k)
    \/ \E k \in 1..Len(tasks) : StepBackup(k)
    \/ \E k \in 1..Len(tasks) : StepCopy(k)
    \/ \E k \in 1..Len(tasks) : Collect(k)
    \/ CollectEnd
    \/ Shutdown
    \/ SyncFolderPairEnd
    \/ CancelDuringBatch

SpecBatchCancel == InitBatch /\ [][NextBatchCancel]_vars

\* cancel() was called after sync_multiple_folder_pairs began
BatchCancelled == budget.cancels = 0

\* C23: a cancel() called after sync_multiple_folder_pairs began is never
\* lost: the flag stays set until the call returns, no folder pair is
\* started after it, and the on_complete of the batch is not invoked,
\* wherever the cancel() lands between the steps of the loop over the pairs.
C23_CancelNeverLost ==
    BatchCancelled =>
        /\ eng._cancelled
        /\ Len(batch.synced) = batch.synced_at_cancel
        /\ batch.completions = 0

\* where C23 does hold: every cancel() but the one that lands after the
\* loop decided to sync a pair and before sync_folder_pair reset the flag
C23_CancelAfterReset ==
    ~batch.cancel_before_reset => C23_CancelNeverLost


(***************************************************************************)
(* SpecStartStop: start_watching and stop_watching are called in any order *)
(* on one FileWatcher, a start may fail, the auto sync of a folder pair    *)
(* may be switched between the calls, and files come and go in the         *)
(* watched trees.                                                          *)
(***************************************************************************)
InitStartStop ==
    /\ NoCall /\ NoEngine
    /\ fw = NewWatcher
    /\ clock = 0
    /\ wlog = WatchLog(WatchedPairs(FilterRule(<<g_png>>, <<>>, TRUE)), 2, 2, 1)

NextStartStop ==
    \/ StartWatching
    \/ \E started \in SUBSET {p1, p2, p3} : StartWatchingFails(started)
    \/ StopWatching
    \/ \E i \in {1, 2} : SetAutoSync(i)
    \/ \E id \in {p1, p2, p3} : \E name \in WatchNames(id) : FileCreated(id, name)
    \/ \E id \in {p1, p2, p3} : \E name \in WatchNames(id) : FileModified(id, name)
    \/ \E id \in {p1, p2, p3} : \E name \in WatchNames(id) : FileDeleted(id, name)

SpecStartStop == InitStartStop /\ [][NextStartStop]_vars

\* C18: after any sequence of start_watching and stop_watching calls the
\* registered observers and handlers are exactly those the most recent
\* start_watching created, one for each watchable pair, and none after a
\* stop_watching; after stop_watching the two registries and the event
\* queue are empty and is_watching() is false; and stop_watching on a
\* watcher already stopped or never started changes nothing.
C18_StartStop ==
    /\ DOMAIN fw._observers = DOMAIN fw._event_handlers
    /\ \A id \in DOMAIN fw._event_handlers :
          /\ fw._event_handlers[id].gen = wlog.starts
          /\ fw._event_handlers[id].folder_pair.id = id
    /\ wlog.last \in {"start", "failed start"} =>
          \A i \in DOMAIN wlog.folder_pairs :
              i \notin wlog.edited =>
                  (wlog.folder_pairs[i].id \in DOMAIN fw._observers
                      <=> i \in Watchable(wlog.folder_pairs, wlog.present))
    /\ wlog.last = "stop" =>
          /\ DOMAIN fw._observers = {}
          /\ DOMAIN fw._event_handlers = {}
          /\ fw._event_queue = <<>>
          /\ ~is_watching(fw)
    /\ (wlog.last = "stop" /\ wlog.before \in {"none", "stop"}) => fw = wlog.prior

\* C18 witness: a second start replaced the handlers of a first start that
\* had queued an event, after the auto sync of a pair was switched off
C18_Witness ==
    /\ wlog.last = "start"
    /\ wlog.starts = 2
    /\ wlog.prior._event_queue # <<>>
    /\ DOMAIN wlog.prior._event_handlers = {p1, p2}
    /\ DOMAIN fw._event_handlers = {p1}
    /\ is_watching(fw)


(***************************************************************************)
(* The consumer thread of the FileWatcher (_process_events) and the calls  *)
(* that run beside it.  A consumer thread is                               *)
(*   pc                 test | take | deliver | sleep | ended              *)
(*   events_to_process  the copy of the queue it took                      *)
(*   e, it              the event being delivered and the position of the  *)
(*                      iterator of `for callback in self._callbacks`      *)
(* A list iterator of Python keeps an index into the list it runs over: it *)
(* yields the element at that index of the list as it is at that moment    *)
(* and ends when the index is not below the length.                        *)
(* The log of these specifications adds to WatchLog                        *)
(*   caller      idle | stop_join | start_join: where the thread that      *)
(*               calls start_watching / stop_watching stands               *)
(*   added       the events _add_event appended, in order                  *)
(*   delivered   the calls callback(event) made: event, listener, thread   *)
(*   adds_left, listener_edits_left   what the environment may still do    *)
(*   touched     the listeners some add_callback or remove_callback named  *)
(***************************************************************************)
l1 == "l1"
l2 == "l2"
l3 == "l3"

ConsumerLog(starts_left, stops_left, adds_left, listener_edits_left) ==
    [caller |-> "idle", added |-> <<>>, delivered |-> <<>>,
     adds_left |-> adds_left, listener_edits_left |-> listener_edits_left,
     touched |-> {}]
        @@ WatchLog(WatchedPairs(FilterRule(<<>>, <<>>, TRUE)),
                    starts_left, stops_left, 0)

Alive(w) == {t \in DOMAIN w.threads : w.threads[t].pc # "ended"}

\* `while self._is_running`
ConsumerTest(t) ==
    /\ t \in DOMAIN fw.threads
    /\ fw.threads[t].pc = "test"
    /\ fw' = [fw EXCEPT !.threads[t].pc =
                 IF fw._is_running THEN "take" ELSE "ended"]
    /\ UNCHANGED <<pureVars, syncVars, clock, wlog>>

\* a consumer that copies the queue and leaves it as it is
ConsumerTakeKeepsQueue(t) ==
    /\ t \in DOMAIN fw.threads
    /\ fw.threads[t].pc = "take"
    /\ fw' = [fw EXCEPT
                !.threads[t] = [pc |-> IF fw._event_queue = <<>>
                                       THEN "sleep" ELSE "deliver",
                                events_to_process |-> fw._event_queue,
                                e |-> 1, it |-> 1]]
    /\ UNCHANGED <<pureVars, syncVars, clock, wlog>>

\* file_watcher.py:266-269: under the lock the queue is copied and cleared
ConsumerTake(t) ==
    /\ t \in DOMAIN fw.threads
    /\ fw.threads[t].pc = "take"
    /\ fw' = [fw EXCEPT
                !.threads[t] = [pc |-> IF fw._event_queue = <<>>
                                       THEN "sleep" ELSE "deliver",
                                events_to_process |-> fw._event_queue,
                                e |-> 1, it |-> 1],
                !._event_queue = <<>>]
    /\ UNCHANGED <<pureVars, syncVars, clock, wlog>>

\* file_watcher.py:272-277: one step of the two loops: the iterator of
\* self._callbacks yields the next listener, which is called with the
\* event, or it ends and the next event is taken up
ConsumerDeliver(t) ==
    /\ t \in DOMAIN fw.threads
    /\ fw.threads[t].pc = "deliver"
    /\ LET th == fw.threads[t]
       IN  IF th.it <= Len(fw._callbacks)
           THEN /\ fw' = [fw EXCEPT !.threads[t].it = @ + 1]
                /\ wlog' = [wlog EXCEPT !.delivered =
                              Append(@, [event |-> th.events_to_process[th.e],
                                         listener |-> fw._callbacks[th.it],
                                         thread |-> t])]
           ELSE /\ fw' = [fw EXCEPT
                            !.threads[t].e = @ + 1,
                            !.threads[t].it = 1,
                            !.threads[t].pc =
                                IF th.e + 1 > Len(th.events_to_process)
                                THEN "sleep" ELSE "deliver"]
                /\ wlog' = wlog
    /\ UNCHANGED <<pureVars, syncVars, clock>>

\* time.sleep(0.5) is over
ConsumerSleep(t) ==
    /\ t \in DOMAIN fw.threads
    /\ fw.threads[t].pc = "sleep"
    /\ fw' = [fw EXCEPT !.threads[t].pc = "test"]
    /\ UNCHANGED <<pureVars, syncVars, clock, wlog>>

\* _add_event(event), called by the handler of a running observer; the
\* events carry the time of their making, which differs from one to the next
AddEvent(id) ==
    /\ wlog.adds_left > 0
    /\ id \in DOMAIN fw._observers
    /\ fw._observers[id] = "alive"
    /\ LET event == WatchEvent("modified", source_base \o <<id, a_png>>, id,
                               Len(wlog.added) + 1)
       IN  /\ fw' = [fw EXCEPT !._event_queue = Append(@, event)]
           /\ wlog' = [wlog EXCEPT !.adds_left = @ - 1,
                                   !.added = Append(@, event)]
    /\ UNCHANGED <<pureVars, syncVars, clock>>

\* a consumer thread is inside `for callback in self._callbacks`
Delivering == {t \in DOMAIN fw.threads : fw.threads[t].pc = "deliver"}

\* add_callback(callback) from another thread
AddCallback(l) ==
    /\ wlog.listener_edits_left > 0
    /\ l \notin Range(fw._callbacks)
    /\ fw' = [fw EXCEPT !._callbacks = Append(@, l)]
    /\ wlog' = [wlog EXCEPT !.listener_edits_left = @ - 1,
                            !.touched = @ \cup {l}]
    /\ UNCHANGED <<pureVars, syncVars, clock>>

\* remove_callback(callback) from another thread
RemoveCallback(l) ==
    /\ wlog.listener_edits_left > 0
    /\ l \in Range(fw._callbacks)
    /\ fw' = [fw EXCEPT !._callbacks = SelectSeq(@, LAMBDA x : x # l)]
    /\ wlog' = [wlog EXCEPT !.listener_edits_left = @ - 1,
                            !.touched = @ \cup {l}]
    /\ UNCHANGED <<pureVars, syncVars, clock>>

\* stop_watching() up to the clearing of the queue (file_watcher.py:217-238)
StopWatchingBegin ==
    /\ wlog.caller = "idle"
    /\ wlog.stops_left > 0
    /\ fw' = stop_watching(fw)
    /\ wlog' = [wlog EXCEPT !.stops_left = @ - 1, !.caller = "stop_join"]
    /\ UNCHANGED <<pureVars, syncVars, clock>>

\* start_watching(folder_pairs) up to the same point of the stop_watching()
\* it begins with
StartWatchingBegin ==
    /\ wlog.caller = "idle"
    /\ wlog.starts_left > 0
    /\ fw' = stop_watching(fw)
    /\ wlog' = [wlog EXCEPT !.starts_left = @ - 1, !.caller = "start_join"]
    /\ UNCHANGED <<pureVars, syncVars, clock>>

\* the join that waits for the thread to end, however long it takes
JoinReturnsWhenEnded(w) ==
    IF w._processor_thread = 0 THEN TRUE
    ELSE w.threads[w._processor_thread].pc = "ended"

\* file_watcher.py:240-242: the thread has ended (or there is none), or
\* join(timeout=5.0) gives up on a consumer that is inside a callback
JoinReturns(w) ==
    IF w._processor_thread = 0 THEN TRUE
    ELSE w.threads[w._processor_thread].pc \in {"ended", "deliver"}

\* the join of stop_watching() returns; in start_watching the observers
\* and handlers are then registered and started and the consumer thread is
\* started (file_watcher.py:179-207)
JoinConsumer ==
    /\ wlog.caller \in {"stop_join", "start_join"}
    /\ JoinReturns(fw)
    /\ IF wlog.caller = "stop_join"
       THEN /\ fw' = fw
            /\ wlog' = [wlog EXCEPT !.caller = "idle"]
       ELSE /\ LET w == Registered(fw, wlog.folder_pairs, wlog.present,
                                   wlog.starts + 1)
               IN  fw' = Spawned([w EXCEPT !._observers =
                                     [id \in DOMAIN @ |-> "alive"]])
            /\ wlog' = [wlog EXCEPT !.caller = "idle", !.starts = @ + 1]
    /\ UNCHANGED <<pureVars, syncVars, clock>>

(***************************************************************************)
(* SpecLoops: start_watching and stop_watching are called one after the    *)
(* other in any order on a watcher with two listeners while events are     *)
(* added and the consumer threads run.                                     *)
(***************************************************************************)
InitLoops ==
    /\ NoCall /\ NoEngine
    /\ fw = [NewWatcher EXCEPT !._callbacks = <<l1, l2>>]
    /\ clock = 0
    /\ wlog = ConsumerLog(2, 1, 2, 0)

NextLoops ==
    \/ StartWatchingBegin
    \/ StopWatchingBegin
    \/ JoinConsumer
    \/ \E id \in {p1, p2} : AddEvent(id)
    \/ \E t \in DOMAIN fw.threads : ConsumerTest(t)
    \/ \E t \in DOMAIN fw.threads : ConsumerTake(t)
    \/ \E t \in DOMAIN fw.threads : ConsumerDeliver(t)
    \/ \E t \in DOMAIN fw.threads : ConsumerSleep(t)

SpecLoops == InitLoops /\ [][NextLoops]_vars

\* C26: across any sequence of start_watching and stop_watching calls, a
\* start while running and a stop whose join times out included, at most
\* one consumer loop is running at any time, and no event is handed to the
\* listeners by two loops.
C26_OneConsumerLoop ==
    /\ Cardinality(Alive(fw)) <= 1
    /\ \A i, j \in DOMAIN wlog.delivered :
          wlog.delivered[i].event = wlog.delivered[j].event
              => wlog.delivered[i].thread = wlog.delivered[j].thread

\* the consumer the join gave up on did not end: it passed the test of
\* `while self._is_running` again after the next start, beside the new one
C26_StaleLoopGoesOn ==
    \E t, u \in DOMAIN fw.threads :
        t < u /\ fw.threads[t].pc = "take" /\ fw.threads[u].pc = "take"

\* where C26 does hold: no two loops hand out the same event
C26_NoEventTwice ==
    \A i, j \in DOMAIN wlog.delivered :
        wlog.delivered[i].event = wlog.delivered[j].event
            => wlog.delivered[i].thread = wlog.delivered[j].thread

(***************************************************************************)
(* SpecDeliver: a watcher with two listeners is started once and never     *)
(* stopped; handlers add events while its consumer thread runs.            *)
(* SpecDeliverFair adds that the consumer thread is scheduled.             *)
(***************************************************************************)
DeliverAdds == 3

InitDeliver ==
    /\ NoCall /\ NoEngine
    /\ fw = [NewWatcher EXCEPT !._callbacks = <<l1, l2>>]
    /\ clock = 0
    /\ wlog = ConsumerLog(1, 0, DeliverAdds, 0)

ConsumerStep ==
    \/ \E t \in DOMAIN fw.threads : ConsumerTest(t)
    \/ \E t \in DOMAIN fw.threads : ConsumerTake(t)
    \/ \E t \in DOMAIN fw.threads : ConsumerDeliver(t)
    \/ \E t \in DOMAIN fw.threads : ConsumerSleep(t)

NextDeliver ==
    \/ StartWatchingBegin
    \/ JoinConsumer
    \/ \E id \in {p1, p2} : AddEvent(id)
    \/ \E t \in DOMAIN fw.threads : ConsumerTest(t)
    \/ \E t \in DOMAIN fw.threads : ConsumerTake(t)
    \/ \E t \in DOMAIN fw.threads : ConsumerDeliver(t)
    \/ \E t \in DOMAIN fw.threads : ConsumerSleep(t)

SpecDeliver == InitDeliver /\ [][NextDeliver]_vars

SpecDeliverFair == SpecDeliver /\ WF_vars(ConsumerStep)

\* the events handed to listener l so far, in the order of the calls
RECURSIVE EventsTo(_, _)
EventsTo(log, l) ==
    IF log = <<>> THEN <<>>
    ELSE (IF Head(log).listener = l THEN <<Head(log).event>> ELSE <<>>)
            \o EventsTo(Tail(log), l)

\* the events thread t took from the queue and has not yet handed to the
\* listener at position k of _callbacks
Undelivered(t, k) ==
    LET th == fw.threads[t]
    IN  IF th.pc # "deliver" THEN <<>>
        ELSE SubSeq(th.events_to_process,
                    IF k < th.it THEN th.e + 1 ELSE th.e,
                    Len(th.events_to_process))

\* C27: with the consumer loop running and no stop_watching, every event
\* _add_event appended is handed to each registered listener exactly once
\* and in the order of the appends, however the handlers interleave with
\* the consumer's copy-and-clear: what a listener has received, then what
\* the consumer holds for it, then the queue, is the sequence of the
\* appended events.
C27_ExactlyOnceInOrder ==
    \A t \in DOMAIN fw.threads :
        \A k \in DOMAIN fw._callbacks :
            EventsTo(wlog.delivered, fw._callbacks[k]) \o Undelivered(t, k)
                \o fw._event_queue = wlog.added

\* C27 witness: three events were appended and handed to both listeners,
\* the third one appended after the consumer had taken the ones before it
C27_Witness ==
    /\ Len(wlog.added) = 3
    /\ \A k \in DOMAIN fw._callbacks :
          EventsTo(wlog.delivered, fw._callbacks[k]) = wlog.added
    /\ fw.threads[1].events_to_process = <<wlog.added[3]>>

\* under SpecDeliverFair every appended event does reach every listener
C27_EventuallyDelivered ==
    []<>(\A k \in DOMAIN fw._callbacks :
            EventsTo(wlog.delivered, fw._callbacks[k]) = wlog.added)

(***************************************************************************)
(* SpecListeners: SpecDeliver with the application adding and removing     *)
(* listeners from another thread while the consumer runs.                  *)
(***************************************************************************)
InitListeners ==
    /\ NoCall /\ NoEngine
    /\ fw = [NewWatcher EXCEPT !._callbacks = <<l1, l2>>]
    /\ clock = 0
    /\ wlog = ConsumerLog(1, 0, 2, 2)

NextListeners ==
    \/ StartWatchingBegin
    \/ JoinConsumer
    \/ \E id \in {p1, p2} : AddEvent(id)
    \/ \E t \in DOMAIN fw.threads : ConsumerTest(t)
    \/ \E t \in DOMAIN fw.threads : ConsumerTake(t)
    \/ \E t \in DOMAIN fw.threads : ConsumerDeliver(t)
    \/ \E t \in DOMAIN fw.threads : ConsumerSleep(t)
    \/ \E l \in {l1, l2, l3} : AddCallback(l)
    \/ \E l \in {l1, l2, l3} : RemoveCallback(l)

SpecListeners == InitListeners /\ [][NextListeners]_vars

\* the listeners registered from the beginning that no add_callback or
\* remove_callback named
StayedRegistered == Range(fw._callbacks) \ wlog.touched

IsPrefix(s, t) == Len(s) <= Len(t) /\ s = SubSeq(t, 1, Len(s))

\* the consumer has handed out everything that was appended
Drained ==
    /\ fw._event_queue = <<>>
    /\ \A t \in DOMAIN fw.threads : fw.threads[t].pc # "deliver"

\* C28: add_callback or remove_callback called from another thread while
\* the consumer delivers an event never makes a listener that stays
\* registered miss that event or receive it twice: such a listener has
\* received a prefix of the appended events, and all of them once the
\* consumer has handed out what it took and the queue is empty.
C28_ListenerChangeIsSafe ==
    \A l \in StayedRegistered :
        /\ IsPrefix(EventsTo(wlog.delivered, l), wlog.added)
        /\ Drained => EventsTo(wlog.delivered, l) = wlog.added

\* where C28 does hold: the only listener added or removed is one that
\* stands behind every staying listener in the list
C28_ChangedBehind == wlog.touched \subseteq {l3} => C28_ListenerChangeIsSafe

(***************************************************************************)
(* SpecSelect: SpecWatch with folder pairs whose FilterRule is disabled,   *)
(* and the scan sync_folder_pair would make of the pair's tree at the      *)
(* moment an event is handled.                                             *)
(***************************************************************************)
SelectFilterPool ==
    {FilterRule(<<g_png>>, <<>>, TRUE), FilterRule(<<g_tmp>>, <<>>, FALSE),
     FilterRule(<<>>, <<g_png>>, FALSE)}

InitSelect ==
    \E f2 \in SelectFilterPool :
        /\ NoCall /\ NoEngine
        /\ fw = NewWatcher
        /\ clock = 0
        /\ wlog = WatchLog(WatchedPairs(f2), 1, 0, 0)

NextSelect ==
    \/ StartWatching
    \/ Tick
    \/ \E id \in {p1, p2, p3} : \E name \in WatchNames(id) : FileCreated(id, name)
    \/ \E id \in {p1, p2, p3} : \E name \in WatchNames(id) : FileModified(id, name)
    \/ \E id \in {p1, p2, p3} : \E name \in WatchNames(id) : FileDeleted(id, name)

SpecSelect == InitSelect /\ [][NextSelect]_vars

\* the source tree of pair `id` as the scan walks it
PairTree(present, id) ==
    LET there == SelectSeq(<<a_png, b_tmp, ui>>,
                           LAMBDA n : source_base \o <<id, n>> \in present)
    IN  [walk |-> [i \in 1..Len(there) |->
                      IF there[i] = ui THEN Dir(<<ui>>) ELSE File(<<there[i]>>)],
         src |-> [q \in {<<there[i]>> : i \in {j \in 1..Len(there) : there[j] # ui}}
                    |-> [mtime |-> 1]]]

\* sync_folder_pair on the pair of handler `id` would have file_path among
\* its scanned files
SyncWouldScan(id, file_path) ==
    LET scan == collect_sync_files(PairTree(wlog.present, id),
                                   fw._event_handlers[id].folder_pair.filter_rule)
    IN  ~scan.raised /\ <<Last(file_path)>> \in Range(scan.files)

\* the event handled last is a create or modify event on a regular file
LastOnRegularFile ==
    /\ wlog.events # <<>>
    /\ CreatedOrModified(Last(wlog.events))
    /\ ~is_dir(wlog.present, Last(wlog.events).file_path)

\* C30: the watcher and the engine select the same files: a create or
\* modify event on a regular file passes the handler's filter (and is then
\* queued, subject to debounce) iff sync_folder_pair would include the file
\* in its scan, also when the pair's FilterRule is disabled.
C30_SameSelection ==
    LastOnRegularFile =>
        LET e == Last(wlog.events)
        IN  Passed(e) <=> SyncWouldScan(e.handler[1], e.file_path)

\* where C30 does hold: the pairs whose FilterRule is enabled
C30_EnabledFilter ==
    (/\ LastOnRegularFile
     /\ fw._event_handlers[Last(wlog.events).handler[1]]
            .folder_pair.filter_rule.enabled)
        => LET e == Last(wlog.events)
           IN  Passed(e) <=> SyncWouldScan(e.handler[1], e.file_path)

\* an event of a pair with an enabled filter was queued for a scanned file
C30_EnabledQueued ==
    /\ LastOnRegularFile
    /\ Last(wlog.events).fate = "queued"
    /\ SyncWouldScan(Last(wlog.events).handler[1], Last(wlog.events).file_path)

(***************************************************************************)
(* directory.rglob("*") over a tree with inaccessible directories.  A node *)
(* of the scanned directory is a file or a directory with its permission   *)
(* bits r (it can be listed) and x (its entries can be stat'ed) and the    *)
(* files it holds.  pathlib lists the entries of the directory first and   *)
(* then the entries of each directory below it; a directory whose          *)
(* scandir() raises PermissionError contributes nothing (pathlib returns   *)
(* from that directory), and is_file() on an entry of a directory without  *)
(* x raises PermissionError (EACCES is not among the errors it ignores).   *)
(***************************************************************************)
FileNode(name) == [name |-> name, is_dir |-> FALSE]

DirNode(name, r, x, children) ==
    [name |-> name, is_dir |-> TRUE, r |-> r, x |-> x, children |-> children]

\* an entry whose is_file() raises PermissionError
Denied(path) == [path |-> path, is_file |-> FALSE, stat_denied |-> TRUE]

\* the entries of the scanned directory itself
RECURSIVE TopEntries(_)
TopEntries(tree) ==
    IF tree = <<>> THEN <<>>
    ELSE LET n == Head(tree)
         IN  <<IF n.is_dir THEN Dir(<<n.name>>) ELSE File(<<n.name>>)>>
                \o TopEntries(Tail(tree))

\* the entries of one directory below it
RECURSIVE SubEntries(_, _)
SubEntries(n, children) ==
    IF children = <<>> \/ ~n.r THEN <<>>
    ELSE <<IF n.x THEN File(<<n.name, Head(children)>>)
                  ELSE Denied(<<n.name, Head(children)>>)>>
            \o SubEntries(n, Tail(children))

RECURSIVE BelowEntries(_)
BelowEntries(tree) ==
    IF tree = <<>> THEN <<>>
    ELSE (IF Head(tree).is_dir
          THEN SubEntries(Head(tree), Head(tree).children) ELSE <<>>)
            \o BelowEntries(Tail(tree))

rglob(tree) == TopEntries(tree) \o BelowEntries(tree)

ScanTree(m) ==
    << DirNode(ui, m[1].r, m[1].x, <<a_png>>),
       FileNode(a_png),
       DirNode(btn, m[2].r, m[2].x, <<b_png, b_tmp>>),
       FileNode(b_tmp),
       DirNode(sub, m[3].r, m[3].x, <<a_png, x_png>>) >>

DirModes == [r : BOOLEAN, x : BOOLEAN]

ScanIncludes == {<<>>, <<g_png>>, <<g_a>>}

ScanExcludes == {<<>>, <<g_tmp>>}

InitScan ==
    /\ NoEngine /\ NoWatcher
    /\ ret = NotReturned
    /\ \E m \in [1..3 -> DirModes], inc \in ScanIncludes, exc \in ScanExcludes :
            call = [op |-> "scan_directory", tree |-> ScanTree(m),
                    walk |-> rglob(ScanTree(m)),
                    include_patterns |-> inc, exclude_patterns |-> exc]

NextScan == CallScanDirectory

SpecScan == InitScan /\ [][NextScan]_vars

\* a directory of the tree that can be listed and stat'ed
Accessible(n) == n.is_dir /\ n.r /\ n.x

\* the regular files outside the inaccessible directories
AccessibleFiles(tree) ==
    {<<tree[i].name>> : i \in {j \in DOMAIN tree : ~tree[j].is_dir}}
        \cup UNION {{<<tree[i].name, tree[i].children[c]>> :
                        c \in DOMAIN tree[i].children} :
                    i \in {j \in DOMAIN tree : Accessible(tree[j])}}

\* C20: when the walk of scan_directory meets a permission error in one
\* subtree, only that subtree is skipped: the scan yields every matching
\* regular file outside the inaccessible directories, whether before or
\* after them in walk order, and never ends early.
C20_OnlySubtreeSkipped ==
    ScanReturned =>
        /\ ~ret.val.raised
        /\ Range(ret.val.files) =
              {f \in AccessibleFiles(call.tree) :
                  match_patterns(f, call.include_patterns,
                                 call.exclude_patterns) = "true"}

\* a directory that can be listed while its entries cannot be stat'ed
ListedOnly(n) == n.is_dir /\ n.r /\ ~n.x /\ n.children # <<>>

\* where C20 does hold: the inaccessible directories cannot be listed
C20_UnlistableSkipped ==
    (\A i \in DOMAIN call.tree : ~ListedOnly(call.tree[i])) =>
        C20_OnlySubtreeSkipped

\* a scan that skipped a directory it could not list and went on
C20_SkippedAndWentOn ==
    /\ ScanReturned
    /\ ~call.tree[1].r /\ Accessible(call.tree[3]) /\ Accessible(call.tree[5])
    /\ <<sub, a_png>> \in Range(ret.val.files)

====
